---- MODULE Spec2Model ----
(***************************************************************************)
(* A model of the nda_validator package: the schema validators            *)
(* (validators/*.py), and the chunked file handler                        *)
(* (utils/file_handler.py).                                               *)
(*                                                                         *)
(* A CSV cell is a tagged value.  The tags keep what pandas makes of the   *)
(* cell's text:                                                            *)
(*   [t |-> "null"]               an empty cell (NaN after read_csv)       *)
(*   [t |-> "str", s |-> chars]   a text cell, as its characters           *)
(*   [t |-> "int", n |-> k]       the decimal text of the integer k        *)
(*   [t |-> "dec", n |-> k]       the decimal text of k + 0.5              *)
(*   [t |-> "txt"]                text that is neither a number nor a date *)
(*   [t |-> "date", fmt, day]     a date text, in format "mdy"             *)
(*                                (MM/DD/YYYY) or "iso" (YYYY-MM-DD), on   *)
(*                                day number `day` of the model's clock    *)
(*   [t |-> "tok", v |-> name]    a word of an enumerated column           *)
(*   [t |-> "ref", ...]           the name of a data file, with what the   *)
(*                                data directory holds under that name     *)
(***************************************************************************)
EXTENDS Integers, Sequences, FiniteSets, TLC

\* ------------------------------------------------------------------ bounds

\* Rows of a table.
MaxRows == 2
\* The last tick of the clock (pd.Timestamp.now()), which starts at 0.
MaxNow == 1
\* Live ValidationResult objects on the heap.
MaxRefs == 3
\* The bytes of a chunk: the model's scale of LargeFileHandler.CHUNK_SIZE.
ChunkBytes == 2
\* The chunks that fill the size limit: the model's scale of NDA_SIZE_LIMIT.
LimitChunks == 1
\* The largest file is this many bytes over the size limit.
ExtraBytes == 3
\* The contents a file of one size can have.
MaxVersions == 2
\* The disk damages at most one chunk of a split, numbered up to this.
MaxDamaged == 0
\* The highest chunk number of a directory that is merged.
MaxChunkNum == 10
\* The most entries of a base directory of collections.
MaxEntries == 2

\* ------------------------------------------------------- program constants

\* NDAValidator.MAX_AGE_MONTHS, ResearchSubjectValidator.max_age_months
MAX_AGE_MONTHS == 1200
\* BehavioralValidator.SCORE_RANGE
MAX_SCORE == 100
\* ResearchSubjectValidator.validate_file: df['interview_age'].std() > 240
AGE_STD_LIMIT == 240

\* --------------------------------------------------------------- cells

Null == [t |-> "null"]
Txt == [t |-> "txt"]
IntCell(k) == [t |-> "int", n |-> k]
DecCell(k) == [t |-> "dec", n |-> k]
StrCell(chars) == [t |-> "str", s |-> chars]
DateCell(f, d) == [t |-> "date", fmt |-> f, day |-> d]
Tok(w) == [t |-> "tok", v |-> w]
Ref(e, x, sm) == [t |-> "ref", exists |-> e, ext |-> x, small |-> sm]

\* pd.isna
IsNa(c) == c.t = "null"

Digits == {"0", "1", "2", "3", "4", "5", "6", "7", "8", "9"}
UpperLetters ==
    {"A", "B", "C", "D", "E", "F", "G", "H", "I", "J", "K", "L", "M",
     "N", "O", "P", "Q", "R", "S", "T", "U", "V", "W", "X", "Y", "Z"}

\* str.startswith
StartsWith(s, p) == Len(s) >= Len(p) /\ SubSeq(s, 1, Len(p)) = p

\* re.match(r'^<prefix>[A-Z0-9]{n}$', s): the prefix, n characters of the
\* class, and the end of the string ($ also matches before a final newline).
MatchPrefixed(s, p, n) ==
    /\ StartsWith(s, p)
    /\ \/ Len(s) = Len(p) + n
       \/ Len(s) = Len(p) + n + 1 /\ s[Len(s)] = "\n"
    /\ \A i \in (Len(p) + 1)..(Len(p) + n) : s[i] \in UpperLetters \cup Digits

NDAR == <<"N", "D", "A", "R">>
NDAR_INV == <<"N", "D", "A", "R", "_", "I", "N", "V">>

\* NDAValidator.GUID_PATTERNS
MatchStandard(s) == MatchPrefixed(s, NDAR, 8)
MatchPseudo(s) == MatchPrefixed(s, NDAR_INV, 8)

\* The text is all digits: read_csv parses such a cell as a number.
DigitsOnly(s) == Len(s) > 0 /\ \A i \in 1..Len(s) : s[i] \in Digits

\* ------------------------------------------------------------ tables

\* The header of a file, in the order of its columns.
ColumnOrder ==
    <<"subjectkey", "src_subject_id", "interview_age", "interview_date", "sex",
      "score", "experiment_id", "eeg_file", "image_file", "image_type",
      "acquisition_date", "race", "ethnicity", "education",
      "employment_status", "gender_identity">>

\* The members of a set of row numbers, ascending (DataFrame.index.tolist()).
RECURSIVE Ascending(_)
Ascending(S) ==
    IF S = {} THEN <<>>
    ELSE LET m == CHOOSE x \in S : \A y \in S : x <= y
         IN  <<m>> \o Ascending(S \ {m})

\* Row numbers are printed into the messages: 0-based by the vectorised
\* checks, 1-based by the row loops.
IdxStr(i) == ToString(i)

RowSet(rows, P(_)) == {i \in 1..Len(rows) : P(rows[i])}
\* f"... in rows: {invalid.index.tolist()}"
IndexList(S) == [k \in 1..Cardinality(S) |-> IdxStr(Ascending(S)[k] - 1)]

\* The names of a set of columns, in header order.
NamesInOrder(S) == SelectSeq(ColumnOrder, LAMBDA c : c \in S)

\* What a cell prints as in a message.
CellStr(c) ==
    CASE c.t = "null" -> "nan"
      [] c.t = "tok" -> c.v
      [] c.t = "int" -> ToString(c.n)
      [] OTHER -> c.t

\* Series.unique().tolist(), as printed: the distinct values, in order of
\* first appearance.
RECURSIVE Unique(_)
Unique(col) ==
    IF Len(col) = 0 THEN <<>>
    ELSE LET front == Unique(SubSeq(col, 1, Len(col) - 1))
             last == CellStr(col[Len(col)])
         IN  IF \E i \in 1..Len(front) : front[i] = last
             THEN front ELSE Append(front, last)

Column(rows, c) == [i \in 1..Len(rows) |-> rows[i][c]]

\* What read_csv makes of a column of number-like cells: int64 when every
\* cell is an integer, float64 when every cell is a number or empty (an
\* empty cell is NaN), object (every cell kept as text) otherwise.
ColDtype(col) ==
    IF Len(col) = 0 THEN "object"
    ELSE IF \A i \in 1..Len(col) : col[i].t = "int" THEN "int64"
    ELSE IF \A i \in 1..Len(col) : col[i].t \in {"int", "dec", "null"} THEN "float64"
    ELSE "object"

\* A subjectkey column read as numbers: every filled cell is all digits.
GuidColNumeric(col) ==
    /\ \E i \in 1..Len(col) : ~IsNa(col[i])
    /\ \A i \in 1..Len(col) : IsNa(col[i]) \/ DigitsOnly(col[i].s)

\* ------------------------------------------------- ValidationResult

EmptyMeta == [keys |-> {}, total |-> 0]
Meta(ks, n) == [keys |-> ks, total |-> n]
Err(kind, detail) == [k |-> kind, d |-> detail]

\* base.py: @dataclass ValidationResult
ValidationResult(valid, errs, warns, meta) ==
    [is_valid |-> valid, errors |-> errs, warnings |-> warns, metadata |-> meta]

\* What one check does to self.result: the errors and warnings it appends,
\* whether it assigns is_valid = False, and whether it raised instead.
Step(errs, warns, inv) ==
    [errs |-> errs, warns |-> warns, inv |-> inv, raise |-> FALSE, fault |-> "none"]
Raise(what) ==
    [errs |-> <<>>, warns |-> <<>>, inv |-> FALSE, raise |-> TRUE, fault |-> what]
NoStep == Step(<<>>, <<>>, FALSE)
\* A check that appends its error and leaves is_valid as it was.
FailKeepsValid(kind, detail) == Step(<<Err(kind, detail)>>, <<>>, FALSE)
\* self.result.is_valid = False; self.result.errors.append(...)
Fail(kind, detail) == Step(<<Err(kind, detail)>>, <<>>, TRUE)
\* self.result.warnings.append(...)
Warn(kind, detail) == Step(<<>>, <<Err(kind, detail)>>, FALSE)

\* a; b: b runs only when a did not raise.
Then(a, b) ==
    IF a.raise THEN a
    ELSE [errs |-> a.errs \o b.errs, warns |-> a.warns \o b.warns,
          inv |-> a.inv \/ b.inv, raise |-> b.raise, fault |-> b.fault]

\* ---------------------------------------- NDAValidator (validators/base.py)

REQUIRED_COLUMNS ==
    {"subjectkey", "src_subject_id", "interview_age", "interview_date", "sex"}

\* NDAValidator.validate_guid; a cell read as a number has no startswith.
validate_guid(guid) ==
    IF IsNa(guid) THEN FALSE
    ELSE IF StartsWith(guid.s, NDAR_INV) THEN MatchPseudo(guid.s)
    ELSE MatchStandard(guid.s)

\* NDAValidator._validate_structure
validate_structure(cols) ==
    LET missing_cols == REQUIRED_COLUMNS \ cols
    IN  IF missing_cols # {}
        THEN Fail("Missing required columns", NamesInOrder(missing_cols))
        ELSE NoStep

\* A number cell compared with an integer bound (a "dec" cell is n + 0.5;
\* NaN compares false).
Below(c, k) == c.t \in {"int", "dec"} /\ c.n < k
Above(c, k) == (c.t = "int" /\ c.n > k) \/ (c.t = "dec" /\ c.n >= k)

\* _validate_common_fields, "Validate GUIDs".  A column of numbers makes
\* guid.startswith raise AttributeError.
check_guids(rows) ==
    LET col == Column(rows, "subjectkey")
        invalid_guids == {i \in 1..Len(rows) : ~validate_guid(col[i])}
    IN  IF GuidColNumeric(col) THEN Raise("AttributeError")
        ELSE IF invalid_guids # {}
        THEN Fail("Invalid GUID format", IndexList(invalid_guids))
        ELSE NoStep

\* _validate_common_fields, "Validate interview_age".  On a column kept as
\* text, df['interview_age'] < 0 raises TypeError; on a float64 column
\* str(value) never matches ^\d+$.
check_ages(rows) ==
    LET col == Column(rows, "interview_age")
        dtype == ColDtype(col)
        invalid_ages ==
            {i \in 1..Len(rows) :
                \/ Below(col[i], 0)
                \/ Above(col[i], MAX_AGE_MONTHS)
                \/ ~(dtype = "int64" /\ col[i].n >= 0)}
    IN  IF dtype = "object" /\ Len(col) > 0 THEN Raise("TypeError")
        ELSE IF invalid_ages # {}
        THEN Fail("Invalid interview_age values", IndexList(invalid_ages))
        ELSE NoStep

\* pd.to_datetime(column) raises on a text that is no date, and on a column
\* whose dates are not all in the format of the first one.
ToDatetimeRaises(col) ==
    \/ \E i \in 1..Len(col) : col[i].t = "txt"
    \/ \E i, j \in 1..Len(col) :
          col[i].t = "date" /\ col[j].t = "date" /\ col[i].fmt # col[j].fmt

\* dates[dates > pd.Timestamp.now()]; NaT compares false.
FutureRows(col, now) == {i \in 1..Len(col) : col[i].t = "date" /\ col[i].day > now}

\* str.match(r'^\d{2}/\d{2}/\d{4}$')
MatchesMDY(c) == c.t = "date" /\ c.fmt = "mdy"

\* _validate_common_fields, "Validate interview_date"
check_dates(rows, now) ==
    LET col == Column(rows, "interview_date")
        future_dates == FutureRows(col, now)
    IN  IF ToDatetimeRaises(col)
        THEN Fail("Invalid interview_date format", <<>>)
        ELSE Then(IF future_dates # {}
                  THEN Fail("Future interview_date values", IndexList(future_dates))
                  ELSE NoStep,
                  IF \E i \in 1..Len(col) : ~MatchesMDY(col[i])
                  THEN Warn("Some dates not in MM/DD/YYYY format", <<>>)
                  ELSE NoStep)

\* _validate_common_fields, "Validate sex values"
check_sex(rows) ==
    LET invalid_sex == {i \in 1..Len(rows) : rows[i].sex \notin {Tok("M"), Tok("F")}}
    IN  IF invalid_sex # {}
        THEN Fail("Invalid sex values",
                  Unique([k \in 1..Cardinality(invalid_sex) |->
                              rows[Ascending(invalid_sex)[k]].sex]))
        ELSE NoStep

\* NDAValidator._validate_common_fields
validate_common_fields(rows, now) ==
    Then(check_guids(rows),
    Then(check_ages(rows),
    Then(check_dates(rows, now),
         check_sex(rows))))

\* What a call of validate_file ends with: the ValidationResult it returns,
\* or an exception it lets through to the caller; `fault` is the exception
\* that was raised inside it ("none" when none was).
Returned(result, fault) == [raised |-> FALSE, result |-> result, fault |-> fault]
Propagated(result, fault) == [raised |-> TRUE, result |-> result, fault |-> fault]

\* self.result after a run of checks on the object `start`.
Applied(start, run, meta) ==
    ValidationResult(
        IF run.inv THEN FALSE ELSE start.is_valid,
        start.errors \o run.errs,
        start.warnings \o run.warns,
        meta)

\* A validate_file with no except clause: the exception reaches the caller.
NoExceptClause(start, run) ==
    Propagated(Applied(start, run, start.metadata), run.fault)

\* except Exception as e: self.result.is_valid = False;
\* self.result.errors.append(f"Unexpected error: {str(e)}"); return self.result
except_clause(start, run) ==
    LET sofar == Applied(start, run, start.metadata)
    IN  Returned(ValidationResult(FALSE,
                                  Append(sofar.errors, Err("Unexpected error", <<run.fault>>)),
                                  sofar.warnings, sofar.metadata),
                 run.fault)

\* The end of the try block of validate_file: return self.result, or the
\* except clause when a check raised.
Finish(start, run, meta) ==
    IF run.raise THEN except_clause(start, run)
    ELSE Returned(Applied(start, run, meta), "none")

\* NDAValidator.reset_validation_state: self.result names a new object.
\* `cur` is the reference self.result held, `fresh` an unused one.
KeepsResultObject(cur, fresh) == cur
reset_validation_state(cur, fresh) == fresh

\* NDAValidator.validate_file.  No class of the package defines
\* _validate_file_exists, so the first statement of the try block raises
\* AttributeError and the except clause builds the result.
NDAValidator_validate_file(start, file, now) ==
    Finish(start, Raise("AttributeError"), start.metadata)

\* ------------------------------ BehavioralValidator (validators/behavioral.py)

VALID_EXTENSIONS == {".csv", ".xlsx"}

\* BehavioralValidator._validate_file_format
validate_file_format(file) ==
    IF ~file.exists THEN Fail("File not found", <<>>)
    ELSE IF file.suffix \notin VALID_EXTENSIONS THEN Fail("Invalid file type", <<>>)
    ELSE NoStep

\* BehavioralValidator._read_behavioral_file: read_csv / read_excel raise on
\* a file with no header and on one they cannot parse.
read_behavioral_file(file) ==
    IF file.content # "table" THEN Fail("Error reading file", <<file.content>>)
    ELSE NoStep

\* BehavioralValidator._validate_behavioral_data, for the score column.
validate_behavioral_data(rows, cols) ==
    LET col == Column(rows, "score")
        invalid_scores == {i \in 1..Len(rows) : Below(col[i], 0) \/ Above(col[i], MAX_SCORE)}
    IN  IF "score" \notin cols THEN NoStep
        ELSE IF ColDtype(col) = "object" /\ Len(col) > 0 THEN Raise("TypeError")
        ELSE IF invalid_scores # {}
        THEN Fail("Invalid score values", IndexList(invalid_scores))
        ELSE NoStep

\* A cell of a column; the columns the model keeps no cells for are filled.
CellOf(r, c) == IF c \in DOMAIN r THEN r[c] ELSE Tok("x")

\* missing_percent > 10
HighMissing(rows, c) ==
    LET missing_count == Cardinality({i \in 1..Len(rows) : IsNa(CellOf(rows[i], c))})
    IN  missing_count > 0 /\ missing_count * 100 > 10 * Len(rows)

\* BehavioralValidator._check_data_completeness: one warning per column.
check_data_completeness(rows, cols) ==
    LET high == SelectSeq(ColumnOrder, LAMBDA c : c \in cols /\ HighMissing(rows, c))
    IN  Step(<<>>, [k \in 1..Len(high) |-> Err("High missing data rate", <<high[k]>>)], FALSE)

\* self.result.metadata.update({...})
BehavioralMeta(old, rows) ==
    Meta(old.keys \cup {"total_records", "missing_data_summary", "score_statistics"},
         Len(rows))

\* BehavioralValidator.validate_file, after reset_validation_state: `start`
\* is the object self.result names.
BehavioralValidator_validate_file(start, file, now) ==
    LET fmt == validate_file_format(file)
        rd == read_behavioral_file(file)
        st == validate_structure(file.cols)
        rows == file.rows
        checks == Then(st,
                  Then(validate_common_fields(rows, now),
                  Then(validate_behavioral_data(rows, file.cols),
                       check_data_completeness(rows, file.cols))))
    IN  IF fmt # NoStep THEN Finish(start, fmt, start.metadata)
        ELSE IF rd # NoStep THEN Finish(start, rd, start.metadata)
        ELSE IF ~Applied(start, st, start.metadata).is_valid
        THEN Finish(start, st, start.metadata)
        ELSE IF checks.raise THEN Finish(start, checks, start.metadata)
        ELSE Finish(start, checks, BehavioralMeta(start.metadata, rows))

\* -------------- ResearchSubjectValidator (validators/research_subject.py)

SubjectRequired ==
    {"subjectkey", "src_subject_id", "interview_age", "interview_date", "sex"}

\* str(sex).upper()
Upper(w) == IF w = "m" THEN "M" ELSE IF w = "f" THEN "F" ELSE w

\* ResearchSubjectValidator.validate_guid: the error of a row, if any.
subject_validate_guid(guid, i) ==
    IF ~IsNa(guid) /\ ~MatchPseudo(guid.s)
    THEN <<Err("Invalid GUID format", <<IdxStr(i)>>)>> ELSE <<>>

\* ResearchSubjectValidator.validate_age: float(age) raises on text; NaN is
\* in no range.
subject_validate_age(age, i) ==
    IF age.t = "txt" THEN <<Err("Invalid interview age format", <<IdxStr(i)>>)>>
    ELSE IF age.t = "null" \/ Below(age, 0) \/ Above(age, MAX_AGE_MONTHS)
    THEN <<Err("Invalid interview age", <<IdxStr(i)>>)>>
    ELSE <<>>

\* ResearchSubjectValidator.validate_date: strptime(str(date_str), '%m/%d/%Y')
subject_validate_date(date, i) ==
    IF IsNa(date) THEN <<Err("Missing interview date", <<IdxStr(i)>>)>>
    ELSE IF ~(date.t = "date" /\ date.fmt = "mdy")
    THEN <<Err("Invalid date format", <<IdxStr(i)>>)>>
    ELSE <<>>

\* ResearchSubjectValidator.validate_sex
subject_validate_sex(sex, i) ==
    IF IsNa(sex) \/ Upper(sex.v) \notin {"M", "F"}
    THEN <<Err("Invalid sex value", <<IdxStr(i)>>)>> ELSE <<>>

\* One pass of the row loop of ResearchSubjectValidator.validate_file.
SubjectRow(r, i) ==
    subject_validate_guid(r.subjectkey, i) \o
    subject_validate_age(r.interview_age, i) \o
    subject_validate_date(r.interview_date, i) \o
    subject_validate_sex(r.sex, i) \o
    (IF IsNa(r.src_subject_id) THEN <<Err("Missing subject ID", <<IdxStr(i)>>)>> ELSE <<>>)

RECURSIVE SubjectRows(_, _)
SubjectRows(rows, i) ==
    IF i > Len(rows) THEN <<>> ELSE SubjectRow(rows[i], i) \o SubjectRows(rows, i + 1)

RECURSIVE SumSeq(_)
SumSeq(q) == IF Len(q) = 0 THEN 0 ELSE q[1] + SumSeq(Tail(q))

\* df['interview_age'].std() > 240, on the doubled ages (all integers):
\* the sample variance n*sum(x^2) - sum(x)^2 over n*(n-1); NaN for one row.
LargeAgeVariation(rows) ==
    LET n == Len(rows)
        x == [i \in 1..n |-> IF rows[i].interview_age.t = "int"
                             THEN 2 * rows[i].interview_age.n
                             ELSE 2 * rows[i].interview_age.n + 1]
        sq == [i \in 1..n |-> x[i] * x[i]]
    IN  /\ n >= 2
        /\ n * SumSeq(sq) - SumSeq(x) * SumSeq(x)
             > 4 * AGE_STD_LIMIT * AGE_STD_LIMIT * n * (n - 1)

\* len(df) != len(df['subjectkey'].unique())
DuplicateKeys(rows) ==
    Len(rows) # Cardinality({rows[i].subjectkey : i \in 1..Len(rows)})

\* ResearchSubjectValidator.validate_file.  On a subjectkey column read as
\* numbers pd.Series(guid).str raises AttributeError, and the outer except
\* clause returns a result of its own.
ResearchSubjectValidator_validate_file(file, now) ==
    LET rows == file.rows
        missing_fields == SubjectRequired \ file.cols
        errors == SubjectRows(rows, 1)
        warnings ==
            (IF DuplicateKeys(rows) THEN <<Err("Duplicate subject keys found", <<>>)>> ELSE <<>>)
            \o (IF LargeAgeVariation(rows)
                THEN <<Err("Large age variation detected", <<>>)>> ELSE <<>>)
        metadata == Meta({"total_subjects", "sex_distribution", "age_statistics",
                          "date_range"}, Len(rows))
    IN  IF ~file.exists
        THEN Returned(ValidationResult(FALSE, <<Err("File not found", <<>>)>>, <<>>, EmptyMeta),
                      "none")
        ELSE IF file.content # "table"
        THEN Returned(ValidationResult(FALSE, <<Err("Error reading file", <<file.content>>)>>,
                                       <<>>, EmptyMeta), "none")
        ELSE IF missing_fields # {}
        THEN Returned(ValidationResult(FALSE,
                          <<Err("Missing required fields", NamesInOrder(missing_fields))>>,
                          <<>>, EmptyMeta), "none")
        ELSE IF GuidColNumeric(Column(rows, "subjectkey"))
        THEN Returned(ValidationResult(FALSE,
                          <<Err("Validation error", <<"AttributeError">>)>>, <<>>, EmptyMeta),
                      "AttributeError")
        ELSE Returned(ValidationResult(Len(errors) = 0, errors,
                                       IF Len(errors) = 0 THEN warnings ELSE <<>>,
                                       IF Len(errors) = 0 THEN metadata ELSE EmptyMeta),
                      "none")

\* ------------------------------------------ EEGValidator (validators/eeg.py)

EEGRequired == SubjectRequired \cup {"experiment_id", "eeg_file"}

EXP == <<"E", "X", "P">>

\* One pass of the row loop of EEGValidator.validate_file: data_dir /
\* row['eeg_file'] raises TypeError on an empty cell; str(nan) does not
\* start with 'EXP'.
EEGRow(r, i, withDir) ==
    IF withDir /\ IsNa(r.eeg_file) THEN Raise("TypeError")
    ELSE Step((IF withDir /\ ~r.eeg_file.exists
               THEN <<Err("EEG file not found", <<IdxStr(i)>>)>> ELSE <<>>)
              \o (IF IsNa(r.experiment_id) \/ ~StartsWith(r.experiment_id.s, EXP)
                  THEN <<Err("Invalid experiment_id format", <<IdxStr(i)>>)>> ELSE <<>>),
              <<>>, FALSE)

RECURSIVE EEGRows(_, _, _)
EEGRows(rows, i, withDir) ==
    IF i > Len(rows) THEN NoStep
    ELSE Then(EEGRow(rows[i], i, withDir), EEGRows(rows, i + 1, withDir))

\* "Collect metadata": df['eeg_file'].str raises AttributeError on a column
\* of empty cells (float64).
EEGMetaRaises(rows) ==
    Len(rows) > 0 /\ \A i \in 1..Len(rows) : IsNa(rows[i].eeg_file)

\* EEGValidator.validate_file
EEGValidator_validate_file(file, withDir, now) ==
    LET rows == file.rows
        missing_fields == EEGRequired \ file.cols
        loop == EEGRows(rows, 1, withDir)
        run == IF file.content # "table" THEN Raise(file.content)
               ELSE IF missing_fields # {}
               THEN Step(<<Err("Missing required fields", NamesInOrder(missing_fields))>>,
                         <<>>, FALSE)
               ELSE IF loop.raise THEN loop
               ELSE IF EEGMetaRaises(rows) THEN Then(loop, Raise("AttributeError"))
               ELSE loop
        metadata == IF file.content = "table" /\ missing_fields = {} /\ ~run.raise
                    THEN Meta({"total_files", "unique_experiments", "file_types"}, Len(rows))
                    ELSE EmptyMeta
        errors == run.errs \o
                  (IF run.raise THEN <<Err("EEG validation error", <<run.fault>>)>> ELSE <<>>)
    IN  IF ~file.exists
        THEN Returned(ValidationResult(FALSE, <<Err("Metadata file not found", <<>>)>>,
                                       <<>>, EmptyMeta), "none")
        ELSE Returned(ValidationResult(Len(errors) = 0, errors, <<>>, metadata),
                      IF run.raise THEN run.fault ELSE "none")

\* ------------------------------------------ MRIValidator (validators/mri.py)

MRIRequired == SubjectRequired \cup {"image_file", "image_type", "acquisition_date"}
valid_extensions == {".nii", ".nii.gz", ".dcm"}
valid_image_types == {Tok("T1"), Tok("T2"), Tok("fMRI"), Tok("DTI")}

\* One pass of the loop over the image files of MRIValidator.validate_file.
MRIRow(r, i) ==
    IF IsNa(r.image_file) THEN Step(<<Err("Missing image_file path", <<IdxStr(i)>>)>>, <<>>, FALSE)
    ELSE IF ~r.image_file.exists
    THEN Step(<<Err("Image file not found", <<IdxStr(i)>>)>>, <<>>, FALSE)
    ELSE Step(IF r.image_file.ext \notin valid_extensions
              THEN <<Err("Invalid image format", <<IdxStr(i)>>)>> ELSE <<>>,
              IF r.image_file.small
              THEN <<Err("Suspicious file size", <<IdxStr(i)>>)>> ELSE <<>>,
              FALSE)

RECURSIVE MRIRows(_, _)
MRIRows(rows, i) ==
    IF i > Len(rows) THEN NoStep ELSE Then(MRIRow(rows[i], i), MRIRows(rows, i + 1))

\* MRIValidator.validate_file
MRIValidator_validate_file(file, withDir, now) ==
    LET rows == file.rows
        missing_fields == MRIRequired \ file.cols
        invalid_types == {i \in 1..Len(rows) : rows[i].image_type \notin valid_image_types}
        dates == Column(rows, "acquisition_date")
        future_dates == FutureRows(dates, now)
        run == Then(IF invalid_types # {}
                    THEN Step(<<Err("Invalid image types",
                                    Unique([k \in 1..Cardinality(invalid_types) |->
                                            rows[Ascending(invalid_types)[k]].image_type]))>>,
                              <<>>, FALSE)
                    ELSE NoStep,
               Then(IF ToDatetimeRaises(dates)
                    THEN Step(<<Err("Invalid acquisition_date format", <<>>)>>, <<>>, FALSE)
                    ELSE IF future_dates # {}
                    THEN Step(<<Err("Future acquisition dates", IndexList(future_dates))>>,
                              <<>>, FALSE)
                    ELSE NoStep,
                    IF withDir THEN MRIRows(rows, 1) ELSE NoStep))
        errors == run.errs
        metadata == IF Len(errors) = 0
                    THEN Meta({"total_scans", "image_type_distribution",
                               "acquisition_date_range"}, Len(rows))
                    ELSE EmptyMeta
    IN  IF ~file.exists
        THEN Returned(ValidationResult(FALSE, <<Err("File not found", <<>>)>>, <<>>, EmptyMeta),
                      "none")
        ELSE IF file.content # "table"
        THEN Returned(ValidationResult(FALSE, <<Err("Error reading file", <<file.content>>)>>,
                                       <<>>, EmptyMeta), "none")
        ELSE IF missing_fields # {}
        THEN Returned(ValidationResult(FALSE,
                          <<Err("Missing required fields", NamesInOrder(missing_fields))>>,
                          <<>>, EmptyMeta), "none")
        ELSE Returned(ValidationResult(Len(errors) = 0, errors, run.warns, metadata), "none")

\* -------------------------- DemographicsValidator (validators/demographics.py)

DemographicsRequired ==
    SubjectRequired \cup
    {"race", "ethnicity", "education", "employment_status", "gender_identity"}
valid_races ==
    {Tok("White"), Tok("Black or African American"), Tok("Asian"),
     Tok("American Indian or Alaska Native"),
     Tok("Native Hawaiian or Other Pacific Islander"), Tok("Other")}
valid_ethnicities == {Tok("Hispanic"), Tok("Non-hispanic")}
valid_gender_identities == {IntCell(1), IntCell(2)}

\* f"Invalid <column> values: {invalid[column].unique().tolist()}"
InvalidValues(rows, c, allowed, kind) ==
    LET invalid == {i \in 1..Len(rows) : rows[i][c] \notin allowed}
    IN  IF invalid # {}
        THEN <<Err(kind, Unique([k \in 1..Cardinality(invalid) |->
                                     rows[Ascending(invalid)[k]][c]]))>>
        ELSE <<>>

\* DemographicsValidator.validate_file
DemographicsValidator_validate_file(file, now) ==
    LET rows == file.rows
        missing_fields == DemographicsRequired \ file.cols
        invalid_gender == {i \in 1..Len(rows) : rows[i].gender_identity
                                                    \notin valid_gender_identities}
        errors == InvalidValues(rows, "race", valid_races, "Invalid race values")
                  \o InvalidValues(rows, "ethnicity", valid_ethnicities,
                                   "Invalid ethnicity values")
                  \o (IF invalid_gender # {}
                      THEN <<Err("Invalid gender_identity values", IndexList(invalid_gender))>>
                      ELSE <<>>)
        metadata == IF Len(errors) = 0
                    THEN Meta({"total_subjects", "race_distribution",
                               "ethnicity_distribution", "gender_identity_distribution"},
                              Len(rows))
                    ELSE EmptyMeta
    IN  IF ~file.exists
        THEN Returned(ValidationResult(FALSE, <<Err("File not found", <<>>)>>, <<>>, EmptyMeta),
                      "none")
        ELSE IF file.content # "table"
        THEN Returned(ValidationResult(FALSE, <<Err("Error reading file", <<file.content>>)>>,
                                       <<>>, EmptyMeta), "none")
        ELSE IF missing_fields # {}
        THEN Returned(ValidationResult(FALSE,
                          <<Err("Missing required fields", NamesInOrder(missing_fields))>>,
                          <<>>, EmptyMeta), "none")
        ELSE Returned(ValidationResult(Len(errors) = 0, errors, <<>>, metadata), "none")

\* ------------------------ LargeFileHandler (utils/file_handler.py)

\* LargeFileHandler.CHUNK_SIZE, LargeFileHandler.NDA_SIZE_LIMIT
CHUNK_SIZE == ChunkBytes
NDA_SIZE_LIMIT == LimitChunks * CHUNK_SIZE

\* A path with no file, and a file with its bytes.
Absent == [exists |-> FALSE]
FileOf(data) == [exists |-> TRUE, data |-> data]

DigitChars == <<"0", "1", "2", "3", "4", "5", "6", "7", "8", "9">>

\* str(chunk_num): the decimal digits of n, with no fixed width.
RECURSIVE Decimal(_)
Decimal(n) ==
    IF n < 10 THEN <<DigitChars[n + 1]>>
    ELSE Append(Decimal(n \div 10), DigitChars[(n % 10) + 1])

\* int(text) of a text of decimal digits.
RECURSIVE IntOf(_)
IntOf(t) ==
    IF Len(t) = 0 THEN 0
    ELSE 10 * IntOf(SubSeq(t, 1, Len(t) - 1))
         + (CHOOSE d \in 0..9 : DigitChars[d + 1] = t[Len(t)])

\* The name of a file of the chunk directory: what stands before the
\* '_chunk' that ends its stem, what stands after it in the stem, and the
\* suffix.  `path` is the path of the file that is split, as stem and suffix.
\* f"{file_path.stem}_chunk{chunk_num}{file_path.suffix}"
ChunkName(path, chunk_num) ==
    [stem |-> path.stem, tail |-> Decimal(chunk_num), suffix |-> path.suffix]

\* A file that is no chunk though its name contains 'chunk' (chunk_list.txt).
ForeignName == [stem |-> "", tail |-> <<"_", "l", "i", "s", "t">>, suffix |-> ".txt"]

\* int(x.stem.split('chunk')[-1]) raises ValueError
KeyRaises(name) == ~DigitsOnly(name.tail)
\* The order of the names as texts, for numbers of one or two digits.
LexKey(name) ==
    IntOf(<<name.tail[1]>>) * 11
    + (IF Len(name.tail) > 1 THEN IntOf(<<name.tail[2]>>) + 1 ELSE 0)
\* key=lambda x: int(x.stem.split('chunk')[-1])
SortKey(name) == IntOf(name.tail)

\* hashlib.sha256(chunk).hexdigest(): equal exactly on equal bytes.
Sha256(data) == <<"sha256", data>>

\* The value of a FileHandlingResult, or the exception the call let through.
FileHandlingResult(op, success, chunks, checksums, errors) ==
    [op |-> op, raised |-> FALSE, success |-> success, chunks |-> chunks,
     checksums |-> checksums, errors |-> errors]
HandlerRaised(op, what) ==
    [op |-> op, raised |-> TRUE, success |-> FALSE, chunks |-> <<>>,
     checksums |-> {}, errors |-> <<what>>]

\* LargeFileHandler.needs_splitting
needs_splitting(f) == IF ~f.exists THEN FALSE ELSE Len(f.data) > NDA_SIZE_LIMIT

\* A check that lets a file of the limit's size through.
ValidateFileAtLimit(f) == f.exists /\ Len(f.data) >= NDA_SIZE_LIMIT
\* LargeFileHandler._validate_file
handler_validate_file(f) ==
    IF ~f.exists THEN FALSE
    ELSE IF Len(f.data) <= NDA_SIZE_LIMIT THEN FALSE
    ELSE TRUE

\* A read loop that stops after the first short block, not before the first
\* empty one.
RECURSIVE ReadBlocksPastEnd(_)
ReadBlocksPastEnd(data) ==
    IF Len(data) < CHUNK_SIZE THEN <<data>>
    ELSE <<SubSeq(data, 1, CHUNK_SIZE)>>
         \o ReadBlocksPastEnd(SubSeq(data, CHUNK_SIZE + 1, Len(data)))

\* The blocks f.read(CHUNK_SIZE) returns until it returns no bytes.
RECURSIVE ReadBlocks(_)
ReadBlocks(data) ==
    IF Len(data) = 0 THEN <<>>
    ELSE IF Len(data) <= CHUNK_SIZE THEN <<data>>
    ELSE <<SubSeq(data, 1, CHUNK_SIZE)>>
         \o ReadBlocks(SubSeq(data, CHUNK_SIZE + 1, Len(data)))

\* What a damaged disk block reads back as.
Damaged(data) == [i \in 1..Len(data) |-> IF i = 1 THEN (data[1] + 1) % 256 ELSE data[i]]

\* open(chunk_path, 'wb'); chunk_file.write(chunk): the directory with the
\* file of that name written anew.
write_chunk(d, name, data) ==
    {e \in d : e.name # name} \cup {[name |-> name, data |-> data]}

RECURSIVE WriteAll(_, _, _, _)
\* The directory after the chunks n.. of the loop are written.
WriteAll(d, names, stored, n) ==
    IF n > Len(names) THEN d
    ELSE WriteAll(write_chunk(d, names[n], stored[n]), names, stored, n + 1)

\* The bytes of the file of a name.
ReadBack(d, name) == (CHOOSE e \in d : e.name = name).data

\* A validation that reads nothing back.
ChecksNothing(d, checksums) == FALSE
\* LargeFileHandler._validate_chunks raises ValueError
validate_chunks_raises(d, checksums) ==
    \E c \in checksums : Sha256(ReadBack(d, c[1])) # c[2]

\* A split that removes the chunks it wrote when their validation fails.
SplitRemovesFailedChunks(f, path, d, damaged) ==
    IF ~handler_validate_file(f)
    THEN [result |-> FileHandlingResult("split", FALSE, <<>>, {}, <<"Invalid file">>),
          dir |-> d, mkdir |-> FALSE]
    ELSE LET blocks == ReadBlocks(f.data)
             names == [n \in 1..Len(blocks) |-> ChunkName(path, n - 1)]
             stored == [n \in 1..Len(blocks) |->
                          IF (n - 1) \in damaged THEN Damaged(blocks[n])
                          ELSE blocks[n]]
             checksums == {<<names[n], Sha256(blocks[n])>> : n \in 1..Len(blocks)}
             after == WriteAll(d, names, stored, 1)
             failed == validate_chunks_raises(after, checksums)
         IN  [result |-> FileHandlingResult("split", ~failed, names, checksums,
                                            IF failed THEN <<"Chunk validation failed">>
                                            ELSE <<>>),
              dir |-> IF failed THEN {e \in after : \A n \in DOMAIN names : e.name # names[n]}
                      ELSE after,
              mkdir |-> TRUE]

\* LargeFileHandler.split_large_file of the file f at the given path into
\* the directory d; `damaged` holds the numbers of the chunks the disk
\* damages.  The result, the directory after it, and whether mkdir ran.
split_large_file(f, path, d, damaged) ==
    IF ~handler_validate_file(f)
    THEN [result |-> FileHandlingResult("split", FALSE, <<>>, {}, <<"Invalid file">>),
          dir |-> d, mkdir |-> FALSE]
    ELSE LET blocks == ReadBlocks(f.data)
             names == [n \in 1..Len(blocks) |-> ChunkName(path, n - 1)]
             stored == [n \in 1..Len(blocks) |->
                          IF (n - 1) \in damaged THEN Damaged(blocks[n])
                          ELSE blocks[n]]
             checksums == {<<names[n], Sha256(blocks[n])>> : n \in 1..Len(blocks)}
             after == WriteAll(d, names, stored, 1)
             errors == IF validate_chunks_raises(after, checksums)
                       THEN <<"Chunk validation failed">> ELSE <<>>
         IN  [result |-> FileHandlingResult("split", Len(errors) = 0, names, checksums,
                                            errors),
              dir |-> after, mkdir |-> TRUE]

\* sorted(chunk_dir.glob("*chunk*"), key=...): the names, by ascending key.
RECURSIVE SortedNames(_)
SortedNames(names) ==
    IF names = {} THEN <<>>
    ELSE LET m == CHOOSE x \in names : \A y \in names : SortKey(x) <= SortKey(y)
         IN  <<m>> \o SortedNames(names \ {m})

\* shutil.copyfileobj of the chunks, in order, into the output file.
RECURSIVE Concatenated(_, _)
Concatenated(d, names) ==
    IF Len(names) = 0 THEN <<>>
    ELSE ReadBack(d, names[1]) \o Concatenated(d, Tail(names))

\* A merge that opens the output path for writing before it looks at the
\* chunks it found.
MergeOpensOutputFirst(d, out) ==
    LET found == {e.name : e \in d}
    IN  IF found = {}
        THEN [result |-> FileHandlingResult("merge", FALSE, <<>>, {},
                                            <<"No chunks found to merge">>),
              out |-> FileOf(<<>>)]
        ELSE [result |-> FileHandlingResult("merge", TRUE, SortedNames(found), {}, <<>>),
              out |-> FileOf(Concatenated(d, SortedNames(found)))]

\* LargeFileHandler.merge_chunks of the directory d into the output path,
\* which holds `out`.  When the sort key raises, the except clause appends
\* its error and the return statement reads `chunks`, which was never
\* assigned: UnboundLocalError reaches the caller.
merge_chunks(d, out) ==
    LET found == {e.name : e \in d}
        chunks == SortedNames(found)
    IN  IF \E name \in found : KeyRaises(name)
        THEN [result |-> HandlerRaised("merge", "UnboundLocalError"), out |-> out]
        ELSE IF found = {}
        THEN [result |-> FileHandlingResult("merge", FALSE, <<>>, {},
                                            <<"No chunks found to merge">>),
              out |-> out]
        ELSE [result |-> FileHandlingResult("merge", TRUE, chunks, {}, <<>>),
              out |-> FileOf(Concatenated(d, chunks))]

\* ------------------------------------------------------------ the inputs

Classes == {"NDAValidator", "BehavioralValidator", "ResearchSubjectValidator",
            "EEGValidator", "MRIValidator", "DemographicsValidator"}

\* The columns each validator requires.
Required(c) ==
    CASE c = "EEGValidator" -> EEGRequired
      [] c = "MRIValidator" -> MRIRequired
      [] c = "DemographicsValidator" -> DemographicsRequired
      [] c = "ResearchSubjectValidator" -> SubjectRequired
      [] OTHER -> REQUIRED_COLUMNS

Chars_NDAR_INVMB337LUJ ==
    <<"N", "D", "A", "R", "_", "I", "N", "V", "M", "B", "3", "3", "7", "L", "U", "J">>
Chars_NDARAB123456 == <<"N", "D", "A", "R", "A", "B", "1", "2", "3", "4", "5", "6">>
Chars_INVALID123 == <<"I", "N", "V", "A", "L", "I", "D", "1", "2", "3">>
Chars_12345 == <<"1", "2", "3", "4", "5">>

\* Day numbers of the clock, which starts at day 0: day 0 is never ahead of
\* the clock, FlipDay is ahead of it until its last tick, FutureDay always.
FlipDay == MaxNow
FutureDay == MaxNow + 7

\* The row of the tests' valid data (tests/test_behavioral.py,
\* test_pseudo_guid_support), with a valid cell in every other column.
BaseRow ==
    [subjectkey |-> StrCell(Chars_NDAR_INVMB337LUJ),
     src_subject_id |-> Tok("SUB001"),
     interview_age |-> IntCell(240),
     interview_date |-> DateCell("mdy", 0),
     sex |-> Tok("F"),
     score |-> IntCell(45),
     experiment_id |-> StrCell(<<"E", "X", "P", "1">>),
     eeg_file |-> Ref(TRUE, ".set", TRUE),
     image_file |-> Ref(TRUE, ".nii", FALSE),
     image_type |-> Tok("T1"),
     acquisition_date |-> DateCell("mdy", 0),
     race |-> Tok("Asian"),
     ethnicity |-> Tok("Non-hispanic"),
     gender_identity |-> IntCell(1)]

\* Cells that differ from the valid row's, per column.
GuidCells == {StrCell(Chars_NDARAB123456), StrCell(Chars_INVALID123),
              StrCell(Chars_12345), Null}
AgeCells == {IntCell(-1), IntCell(0), IntCell(MAX_AGE_MONTHS), IntCell(MAX_AGE_MONTHS + 1),
             DecCell(240), Txt, Null}
DateCells == {DateCell("iso", 0), DateCell("mdy", FutureDay), DateCell("mdy", FlipDay),
              DateCell("iso", FutureDay), Txt, Null}
SexCells == {Tok("X"), Tok("m"), Null}

Variants(col, cells) == {[BaseRow EXCEPT ![col] = v] : v \in cells}

CommonRows ==
    Variants("subjectkey", GuidCells) \cup Variants("interview_age", AgeCells)
    \cup Variants("interview_date", DateCells) \cup Variants("sex", SexCells)
    \cup Variants("src_subject_id", {Null})

\* The violations of the common rules, one of each, for the validators whose
\* own rules are on other columns.
FewCommonRows ==
    Variants("subjectkey", {StrCell(Chars_INVALID123), Null})
    \cup Variants("interview_age", {IntCell(MAX_AGE_MONTHS + 1), IntCell(-1)})
    \cup Variants("interview_date", {DateCell("mdy", FutureDay), DateCell("iso", 0)})
    \cup Variants("sex", {Tok("X")})

OwnRows(c) ==
    CASE c = "BehavioralValidator" ->
            CommonRows \cup Variants("score", {IntCell(150), Null, Txt})
      [] c = "ResearchSubjectValidator" -> CommonRows
      [] c = "EEGValidator" ->
            FewCommonRows
            \cup Variants("experiment_id", {StrCell(<<"E", "1">>), Null})
            \cup Variants("eeg_file", {Ref(FALSE, ".set", TRUE), Null})
      [] c = "MRIValidator" ->
            FewCommonRows
            \cup Variants("image_type", {Tok("PET")})
            \cup Variants("acquisition_date",
                          {DateCell("mdy", FutureDay), DateCell("mdy", FlipDay), Txt})
            \cup Variants("image_file", {Null, Ref(FALSE, ".nii", FALSE),
                                         Ref(TRUE, ".txt", FALSE), Ref(TRUE, ".nii", TRUE)})
      [] c = "DemographicsValidator" ->
            FewCommonRows
            \cup Variants("race", {Tok("Martian")})
            \cup Variants("ethnicity", {Tok("Unknown")})
            \cup Variants("gender_identity", {IntCell(3)})
      [] OTHER -> Variants("subjectkey", {StrCell(Chars_INVALID123)})

\* A further row of a table: valid, or with a cell that changes what the
\* column checks make of the whole column.
FurtherRows(c) ==
    {BaseRow}
    \cup Variants("subjectkey", {StrCell(Chars_INVALID123)})
    \cup (IF c = "EEGValidator" THEN Variants("experiment_id", {StrCell(<<"E", "1">>)})
          ELSE IF c = "MRIValidator" THEN Variants("image_type", {Tok("PET")})
          ELSE IF c = "DemographicsValidator" THEN Variants("race", {Tok("Martian")})
          ELSE Variants("interview_age", {Null, Txt})
               \cup Variants("interview_date", {Txt, DateCell("mdy", FutureDay)}))

\* The dates of one column of a file are written in one format: a further
\* row takes the format of the first row's dates.
SameFormat(first, r) ==
    IF /\ first.interview_date.t = "date" /\ r.interview_date.t = "date"
       /\ first.interview_date.fmt # r.interview_date.fmt
    THEN [r EXCEPT !["interview_date"] = DateCell(first.interview_date.fmt,
                                                  r.interview_date.day)]
    ELSE r

RECURSIVE Tables(_, _)
\* The tables of 1..n rows for validator c.
Tables(c, n) ==
    IF n = 1 THEN {<<r>> : r \in OwnRows(c) \cup {BaseRow}}
    ELSE Tables(c, n - 1)
         \cup {Append(t, SameFormat(t[1], r)) : t \in Tables(c, n - 1), r \in FurtherRows(c)}

File(e, sfx, content, cols, rows) ==
    [exists |-> e, suffix |-> sfx, content |-> content, cols |-> cols, rows |-> rows]

\* Columns a file of validator c may lack.
Lacking == {{"sex"}, {"src_subject_id", "interview_date", "sex"}}

\* The files validator c is given: no file; a file of a wrong type; a file
\* with no header; one that does not parse; tables that lack required
\* columns; a header with no rows; and the tables.
Files(c) ==
    {File(FALSE, ".csv", "table", Required(c), <<BaseRow>>),
     File(TRUE, ".txt", "table", Required(c), <<BaseRow>>),
     File(TRUE, ".csv", "empty", {}, <<>>),
     File(TRUE, ".csv", "corrupt", {}, <<>>),
     File(TRUE, ".csv", "table", Required(c), <<>>)}
    \cup {File(TRUE, ".csv", "table", Required(c) \ l, <<r>>) :
            l \in Lacking,
            r \in {BaseRow} \cup Variants("subjectkey", {StrCell(Chars_INVALID123)})
                  \cup Variants("interview_age", {Txt})}
    \cup {File(TRUE, ".csv", "table",
               Required(c) \cup (IF c = "BehavioralValidator" THEN {"score"} ELSE {}), t) :
            t \in Tables(c, MaxRows)}

\* Another file the same validator object is given between two calls.
OtherFile(c) ==
    File(TRUE, ".csv", "table", Required(c), <<[BaseRow EXCEPT !["sex"] = Tok("X")]>>)

\* Whether the call passes a data directory (EEG and MRI read it).
DataDirs(c) == IF c \in {"EEGValidator", "MRIValidator"} THEN BOOLEAN ELSE {FALSE}

\* ------------------------------------------------------------ the state

VARIABLES
    cls,        \* the class of the validator object under test
    file,       \* the file under test, which nothing changes
    withDir,    \* whether the calls pass a data directory
    now,        \* the clock
    heap,       \* the ValidationResult objects, by reference
    selfResult, \* the reference self.result of the validator object holds
    first,      \* the first call on `file`: the object it returned, and the
                \* value of that object at the return
    ret,        \* the latest call: the value it returned
    source,     \* the file at the path given to the file handler
    chunkDir,   \* the files of the chunk directory, by name
    dirExists,  \* whether the chunk directory exists
    merged,     \* the file at the output path of merge_chunks
    result,     \* what the latest call of the file handler returned
    prev,       \* the operation before it, and whether it succeeded
    dataDir,    \* the collection directory given to CollectionValidator
    collectionIdOk, \* whether its collection id is C and four digits
    parallel,   \* the `parallel` argument of validate_collection
    basePath,   \* the entries of the base directory given to
                \* validate_all_collections, in the order glob yields them
    futures,    \* the keys of the tasks submitted to the pool, in order
    completed,  \* the tasks the workers completed, in the order of their
                \* completion: the key, and what the task returned or raised
    gathered,   \* the `results` dict of the caller: keys and values, in
                \* the order of insertion
    returned,   \* what the call returned
    pc          \* where the call stands

\* The variables of the validators, those of the file handler, and those
\* of the orchestrator and the batch automation.
vvars == <<cls, file, withDir, now, heap, selfResult, first, ret>>
hvars == <<source, chunkDir, dirExists, merged, result, prev>>
pvars == <<dataDir, collectionIdOk, parallel, basePath, futures, completed, gathered,
           returned, pc>>
vars == <<vvars, hvars, pvars>>

Refs == 1..MaxRefs
Free == [t |-> "free"]
NoCall == [called |-> FALSE]

\* ValidationResult(is_valid=True, errors=[], warnings=[], metadata={})
NewResult == ValidationResult(TRUE, <<>>, <<>>, EmptyMeta)

\* The classes whose validate_file fills the object self.result names; the
\* others build their ValidationResult when they return.
UsesSelfResult(c) == c \in {"NDAValidator", "BehavioralValidator"}

\* A reference no variable holds.
FreshRef(held) == CHOOSE r \in Refs : r \notin held /\ \A q \in Refs \ held : r <= q

\* The heap with the objects no variable refers to collected.
Collect(h, held) == [r \in Refs |-> IF r \in held THEN h[r] ELSE Free]

Held(f, s) == {s} \cup (IF f.called THEN {f.ref} ELSE {})

\* validate_file of the class, on the object `start` for the classes that
\* fill self.result.
validate_file(c, start, f, dir, t) ==
    CASE c = "NDAValidator" -> NDAValidator_validate_file(start, f, t)
      [] c = "BehavioralValidator" -> BehavioralValidator_validate_file(start, f, t)
      [] c = "ResearchSubjectValidator" -> ResearchSubjectValidator_validate_file(f, t)
      [] c = "EEGValidator" -> EEGValidator_validate_file(f, dir, t)
      [] c = "MRIValidator" -> MRIValidator_validate_file(f, dir, t)
      [] c = "DemographicsValidator" -> DemographicsValidator_validate_file(f, t)

\* No call of the file handler yet, on an empty disk.
NoOp == [op |-> "none"]

\* No call of the orchestrator or of the batch automation.
BatchIdle ==
    /\ dataDir = <<>>
    /\ collectionIdOk = TRUE
    /\ parallel = FALSE
    /\ basePath = <<>>
    /\ futures = <<>>
    /\ completed = <<>>
    /\ gathered = <<>>
    /\ returned = NoOp
    /\ pc = "none"

HandlerIdle ==
    /\ source = Absent
    /\ chunkDir = {}
    /\ dirExists = FALSE
    /\ merged = Absent
    /\ result = NoOp
    /\ prev = NoOp

ValidatorInit ==
    /\ HandlerIdle
    /\ BatchIdle
    /\ cls \in Classes
    /\ file \in Files(cls)
    /\ withDir \in DataDirs(cls)
    /\ now = 0
    /\ selfResult = 1
    /\ heap = [r \in Refs |-> IF r = 1 THEN NewResult ELSE Free]
    /\ first = NoCall
    /\ ret = NoCall

\* validator.validate_file(f, data_dir), on the file under test or on
\* another file.
Call(onMain) ==
    LET f == IF onMain THEN file ELSE OtherFile(cls)
        fresh == FreshRef(Held(first, selfResult))
        \* the object the call works on, and the reference it returns
        ref == IF UsesSelfResult(cls) THEN reset_validation_state(selfResult, fresh)
               ELSE fresh
        start == IF ref = fresh THEN NewResult ELSE heap[ref]
    IN  \E out \in {validate_file(cls, start, f, withDir, now)} :
        /\ ret' = [called |-> TRUE, main |-> onMain, task |-> FALSE,
                    raised |-> out.raised, fault |-> out.fault, val |-> out.result,
                    at |-> now]
        /\ first' = IF onMain /\ ~first.called /\ ~out.raised
                    THEN [called |-> TRUE, ref |-> ref, val |-> out.result, at |-> now]
                    ELSE first
        /\ selfResult' = IF UsesSelfResult(cls) THEN ref ELSE selfResult
        /\ heap' = Collect([heap EXCEPT ![ref] = out.result], Held(first', selfResult'))
        /\ UNCHANGED <<cls, file, withDir, now>>
        /\ UNCHANGED <<hvars, pvars>>

Validate == Call(TRUE)
ValidateOther == Call(FALSE)

\* The data types CollectionValidator._create_validation_tasks makes tasks of.
TaskClasses == {"ResearchSubjectValidator", "BehavioralValidator", "EEGValidator",
                "MRIValidator"}

\* CollectionValidator._run_validation: validator_class(self.collection_id)
\* raises ValueError on a collection id that is not C and four digits; the
\* new validator is given the file, and the data directory for 'eeg' only.
run_validation(c, f, idOk, t) ==
    IF ~idOk THEN Propagated(NewResult, "ValueError")
    ELSE validate_file(c, NewResult, f, c = "EEGValidator", t)

\* _validate_sequential, _validate_parallel: except Exception as e:
\* results[task_type] = ValidationResult(is_valid=False,
\*     errors=[f"Validation failed: {str(e)}"], warnings=[], metadata={})
faulted_task(fault) ==
    ValidationResult(FALSE, <<Err("Validation failed", <<fault>>)>>, <<>>, EmptyMeta)

\* results[task_type] of one task of the orchestrator.
task_result(out) == IF out.raised THEN faulted_task(out.fault) ELSE out.result

\* The orchestrator runs the task of the file under test, with a validator
\* object of its own.
RunTask ==
    /\ cls \in TaskClasses
    /\ \E idOk \in BOOLEAN :
          \E out \in {run_validation(cls, file, idOk, now)} :
              ret' = [called |-> TRUE, main |-> idOk /\ withDir = (cls = "EEGValidator"),
                      task |-> TRUE, raised |-> FALSE, fault |-> out.fault,
                      val |-> task_result(out), at |-> now]
    /\ UNCHANGED <<cls, file, withDir, now, heap, selfResult, first>>
    /\ UNCHANGED <<hvars, pvars>>

\* NDAValidator.__init__: a second validator object of the class takes the
\* place of the first.
NewInstance ==
    LET fresh == FreshRef(IF first.called THEN {first.ref} ELSE {})
    IN  /\ selfResult' = fresh
        /\ heap' = Collect([heap EXCEPT ![fresh] = NewResult], Held(first, fresh))
        /\ UNCHANGED <<cls, file, withDir, now, first, ret>>
        /\ UNCHANGED <<hvars, pvars>>

\* Time passes.
Tick ==
    /\ now < MaxNow
    /\ now' = now + 1
    /\ UNCHANGED <<cls, file, withDir, heap, selfResult, first, ret>>
    /\ UNCHANGED <<hvars, pvars>>

Init == ValidatorInit
Next == Validate \/ ValidateOther \/ NewInstance \/ RunTask \/ Tick
Spec == Init /\ [][Next]_vars

\* ------------------------------------------------ the file handler's state

\* The stem of the file given to the handler, and its path.
Stem == "scan"
SourcePath == [stem |-> Stem, suffix |-> ".bin"]

\* The sizes of the file: empty, at the limit, and the sizes over it.
Sizes == {0, NDA_SIZE_LIMIT} \cup (NDA_SIZE_LIMIT + 1)..(NDA_SIZE_LIMIT + ExtraBytes)

\* The bytes of version v of a file of a size: no two positions alike, no
\* two versions alike at a position.
Content(v, size) == [i \in 1..size |-> (16 * v + i) % 256]

\* What the operation before was.
Summary(r) == IF r.op \in {"split", "merge"}
              THEN [op |-> r.op, success |-> ~r.raised /\ r.success]
              ELSE [op |-> r.op]

\* No validator is at work.
ValidatorIdle ==
    /\ cls = "none"
    /\ file = Absent
    /\ withDir = FALSE
    /\ now = 0
    /\ selfResult = 1
    /\ heap = [r \in Refs |-> Free]
    /\ first = NoCall
    /\ ret = NoCall

HandlerInit == ValidatorIdle /\ HandlerIdle /\ BatchIdle

\* The file at the source path is written, with other content or another
\* size, or removed.
Rewrite ==
    /\ \E f \in {Absent} \cup {FileOf(Content(v, n)) : v \in 1..MaxVersions, n \in Sizes} :
          /\ f # source
          /\ source' = f
    /\ result' = [op |-> "rewrite"]
    /\ prev' = Summary(result)
    /\ UNCHANGED <<chunkDir, dirExists, merged>>
    /\ UNCHANGED <<vvars, pvars>>

\* A file that is no chunk, with 'chunk' in its name, is put into the chunk
\* directory.
PutForeign ==
    /\ dirExists
    /\ \A e \in chunkDir : e.name # ForeignName
    /\ chunkDir' = chunkDir \cup {[name |-> ForeignName, data |-> <<>>]}
    /\ result' = [op |-> "put"]
    /\ prev' = Summary(result)
    /\ UNCHANGED <<source, dirExists, merged>>
    /\ UNCHANGED <<vvars, pvars>>

\* The chunk directory is removed with what it holds.
RemoveDir ==
    /\ dirExists
    /\ chunkDir' = {}
    /\ dirExists' = FALSE
    /\ result' = [op |-> "rmdir"]
    /\ prev' = Summary(result)
    /\ UNCHANGED <<source, merged>>
    /\ UNCHANGED <<vvars, pvars>>

\* handler.split_large_file(file_path, output_dir); the disk may damage one
\* of the chunks written.
Split ==
    /\ \E damaged \in {{}} \cup {{n} : n \in 0..MaxDamaged} :
          \E done \in {split_large_file(source, SourcePath, chunkDir, damaged)} :
              /\ damaged # {} => done.mkdir
              /\ result' = done.result
              /\ chunkDir' = done.dir
              /\ dirExists' = (dirExists \/ done.mkdir)
    /\ prev' = Summary(result)
    /\ UNCHANGED <<source, merged>>
    /\ UNCHANGED <<vvars, pvars>>

\* handler.merge_chunks(chunk_dir, output_path); the glob of a directory
\* that does not exist finds nothing.
Merge ==
    /\ \E done \in {merge_chunks(chunkDir, merged)} :
          /\ result' = done.result
          /\ merged' = done.out
    /\ prev' = Summary(result)
    /\ UNCHANGED <<source, chunkDir, dirExists>>
    /\ UNCHANGED <<vvars, pvars>>

\* handler.needs_splitting(file_path)
NeedsSplitting ==
    /\ result' = [op |-> "needs_splitting", value |-> needs_splitting(source)]
    /\ prev' = Summary(result)
    /\ UNCHANGED <<source, chunkDir, dirExists, merged>>
    /\ UNCHANGED <<vvars, pvars>>

HandlerNext == Rewrite \/ PutForeign \/ RemoveDir \/ Split \/ Merge \/ NeedsSplitting
HandlerSpec == HandlerInit /\ [][HandlerNext]_vars

\* ------------------------------------- one call of the handler on a disk

\* The files the source path can hold.
SourceFiles == {Absent} \cup {FileOf(Content(v, n)) : v \in 1..MaxVersions, n \in Sizes}

\* The disk before a call: any file at the source path; an output directory
\* that does not exist, is empty, or holds the chunks of an earlier split of
\* a file `old`; an output path of merge_chunks that holds nothing or the
\* file of an earlier merge.
CallInit ==
    /\ ValidatorIdle
    /\ BatchIdle
    /\ result = NoOp
    /\ prev = NoOp
    /\ source \in SourceFiles
    /\ \E old \in SourceFiles :
          /\ chunkDir = split_large_file(old, SourcePath, {}, {}).dir
          /\ dirExists \in {TRUE, chunkDir # {}}
          /\ merged \in {Absent, old}

CallNext == Split \/ Merge \/ NeedsSplitting
CallSpec == CallInit /\ [][CallNext]_vars

\* ------------------------------------------- merging a directory of chunks

\* A chunk directory as splits and removals of files leave it: chunks of the
\* file numbered from 0 to MaxChunkNum at most, each a full block whose bytes
\* are its number.
ChunkFile(n) == [name |-> ChunkName(SourcePath, n), data |-> [i \in 1..CHUNK_SIZE |-> n]]

SortInit ==
    /\ ValidatorIdle
    /\ BatchIdle
    /\ source = Absent
    /\ dirExists = TRUE
    /\ merged = Absent
    /\ result = NoOp
    /\ prev = NoOp
    /\ \E ns \in SUBSET (0..MaxChunkNum) : chunkDir = {ChunkFile(n) : n \in ns}

SortSpec == SortInit /\ [][Merge]_vars

\* ------------------------------------ CollectionValidator (validate.py)

\* The task types in the order _create_validation_tasks appends them.
TaskTypes == <<"subject", "behavioral", "eeg", "mri">>

ValidatorClass(task_type) ==
    CASE task_type = "subject" -> "ResearchSubjectValidator"
      [] task_type = "behavioral" -> "BehavioralValidator"
      [] task_type = "eeg" -> "EEGValidator"
      [] task_type = "mri" -> "MRIValidator"

\* CollectionValidator._create_validation_tasks: one task per file that
\* exists; d holds the file of each task type.
create_validation_tasks(d) == SelectSeq(TaskTypes, LAMBDA task_type : d[task_type].exists)

\* A loop that ends at the first task that raises.
SequentialStopsAtFault(tasks, d, ok, t) ==
    IF ok
    THEN [k \in 1..Len(tasks) |->
            <<tasks[k],
              task_result(run_validation(ValidatorClass(tasks[k]), d[tasks[k]], ok, t))>>]
    ELSE <<>>

\* CollectionValidator._validate_sequential: the results dict, as its keys
\* and values in the order of insertion.
validate_sequential(tasks, d, ok, t) ==
    [k \in 1..Len(tasks) |->
        <<tasks[k],
          task_result(run_validation(ValidatorClass(tasks[k]), d[tasks[k]], ok, t))>>]

\* `for future in futures` takes the futures in the order of submission.
\* The one taken after n were taken; `done` holds the completed tasks.
NextCompleted(futs, done, n) == IF Len(done) > n THEN done[n + 1][1] ELSE futs[n + 1]
NextFuture(futs, done, n) == futs[n + 1]

RECURSIVE Total(_)
\* sum(...) of a sequence of numbers
Total(ns) == IF Len(ns) = 0 THEN 0 ELSE ns[1] + Total(Tail(ns))

\* A summary that counts the results with errors and with warnings.
CountsResults(results) ==
    [all_valid |-> \A k \in DOMAIN results : results[k][2].is_valid,
     results |-> results,
     error_count |-> Cardinality({k \in DOMAIN results : results[k][2].errors # <<>>}),
     warning_count |-> Cardinality({k \in DOMAIN results : results[k][2].warnings # <<>>}),
     metadata |-> [k \in DOMAIN results |-> <<results[k][1], results[k][2].metadata>>]]

\* CollectionValidator._summarize_results
summarize_results(results) ==
    [all_valid |-> \A k \in DOMAIN results : results[k][2].is_valid,
     results |-> results,
     error_count |-> Total([k \in DOMAIN results |-> Len(results[k][2].errors)]),
     warning_count |-> Total([k \in DOMAIN results |-> Len(results[k][2].warnings)]),
     metadata |-> [k \in DOMAIN results |-> <<results[k][1], results[k][2].metadata>>]]

\* The keys of the completed tasks, and what the task of a key came to.
CompletedKeys == {completed[i][1] : i \in DOMAIN completed}
OutcomeOf(key) == completed[CHOOSE i \in DOMAIN completed : completed[i][1] = key][2]

\* ----------------------------------------- NDAAutomation (utils/automation.py)

\* NDAAutomation.SIZE_THRESHOLD
SIZE_THRESHOLD == LimitChunks * CHUNK_SIZE

\* re.match(r'^C\d{4}$', collection_id)
MatchCollectionId(name) ==
    /\ Len(name) = 5
    /\ name[1] = "C"
    /\ \A i \in 2..5 : name[i] \in Digits

\* base_path.glob('C*')
GlobC(name) == Len(name) > 0 /\ name[1] = "C"

\* A selection that leaves out the is_dir() test.
MatchesOnly(entry) == GlobC(entry.name)
\* for collection_dir in base_path.glob('C*'): if collection_dir.is_dir()
IsCollectionDir(entry) == GlobC(entry.name) /\ entry.dir

\* The entry of results['validations'] for a ValidationResult.
ValidationEntry(type, r) ==
    [type |-> type, is_valid |-> r.is_valid, errors |-> r.errors,
     warnings |-> r.warnings, metadata |-> r.metadata]

NoResults == [validations |-> <<>>, splits |-> <<>>, errors |-> <<>>, calls |-> <<>>]

\* NDAAutomation._get_data_types
get_data_types(coll) ==
    SelectSeq(<<"eeg", "mri", "behavioral">>, LAMBDA data_type : coll[data_type].exists)

\* extensions of _process_large_files; the suffix of 'x.nii.gz' is '.gz'.
Extensions(data_type) ==
    CASE data_type = "eeg" -> {".set", ".fdt"}
      [] data_type = "mri" -> {".nii", ".nii.gz"}
      [] data_type = "behavioral" -> {".csv", ".xlsx"}

\* Paths as the sequences of their parts: base_path and output_dir of
\* validate_all_collections are two directories, none inside the other.
BasePath == <<"base_path">>
OutputDir == <<"output_dir">>
\* Whether the path q is the directory p or lies under it.
Under(p, q) == Len(p) <= Len(q) /\ SubSeq(q, 1, Len(p)) = p

\* A call process_collection makes, as the model observes it: a
\* validate_file with the is_valid of its result, or a split_large_file with
\* the success of its result, the directory it was given and the paths of
\* the files it wrote.
ValidateCall(type, is_valid) ==
    [call |-> "validate_file", type |-> type, ok |-> is_valid, filename |-> "",
     dir |-> <<>>, written |-> {}]
SplitCall(type, filename, dir, done) ==
    [call |-> "split_large_file", type |-> type, ok |-> done.result.success,
     filename |-> filename, dir |-> dir,
     written |-> {dir \o <<done.result.chunks[n]>> : n \in DOMAIN done.result.chunks}]

\* A split directory beside the file that is split.
SplitBesideSource(output_dir, file_path) == file_path.parent \o <<file_path.stem>>
\* split_dir = output_dir / file_path.stem
SplitDir(output_dir, file_path) == output_dir \o <<file_path.stem>>

RECURSIVE process_large_files(_, _, _, _, _)
\* NDAAutomation._process_large_files: the entries it appends to
\* results['splits'] for the files glob yields, each split into a directory
\* of its own, and the calls it makes; the chunks of an entry are the paths
\* of the files of that directory, in no order.  The result of
\* split_large_file is not looked at.
process_large_files(data_dir, output_dir, data_type, files, damaged) ==
    IF Len(files) = 0 THEN [splits |-> <<>>, calls |-> <<>>]
    ELSE LET f == files[1]
             file_path == [parent |-> data_dir, stem |-> f.path.stem,
                           suffix |-> f.path.suffix]
             split_dir == SplitDir(output_dir, file_path)
             done == split_large_file(FileOf(f.data), file_path, {}, damaged)
             rest == process_large_files(data_dir, output_dir, data_type, Tail(files),
                                         damaged)
         IN  IF f.path.suffix \in Extensions(data_type) /\ Len(f.data) > SIZE_THRESHOLD
             THEN [splits |-> <<[type |-> data_type, filename |-> f.path,
                                 chunks |-> {split_dir \o <<e.name>> : e \in done.dir}]>>
                             \o rest.splits,
                   calls |-> <<SplitCall(data_type, f.path, split_dir, done)>>
                             \o rest.calls]
             ELSE rest

\* A _process_data_type that splits the large files whatever the validation
\* of the metadata came to.
SplitsWhateverValidation(coll, collection_path, output_dir, data_type, damaged, t) ==
    LET d == coll[data_type]
        out == validate_file(ValidatorClass(data_type), NewResult, d.metadata, TRUE, t)
        large == process_large_files(collection_path \o <<data_type>>,
                                     output_dir \o <<data_type>>, data_type, d.files,
                                     damaged)
    IN  IF ~d.metadata.exists THEN NoResults
        ELSE IF out.raised
        THEN [NoResults EXCEPT !.errors = <<out.fault>>]
        ELSE [validations |-> <<ValidationEntry(data_type, out.result)>>,
              splits |-> large.splits,
              errors |-> <<>>,
              calls |-> <<ValidateCall(data_type, out.result.is_valid)>> \o large.calls]

\* NDAAutomation._process_data_type, for a collection id the validators
\* accept (process_collection made a validator of it before).
process_data_type(coll, collection_path, output_dir, data_type, damaged, t) ==
    LET d == coll[data_type]
        out == validate_file(ValidatorClass(data_type), NewResult, d.metadata, TRUE, t)
        large == process_large_files(collection_path \o <<data_type>>,
                                     output_dir \o <<data_type>>, data_type, d.files,
                                     damaged)
    IN  IF ~d.metadata.exists THEN NoResults
        ELSE IF out.raised
        THEN [NoResults EXCEPT !.errors = <<out.fault>>]
        ELSE [validations |-> <<ValidationEntry(data_type, out.result)>>,
              splits |-> IF out.result.is_valid THEN large.splits ELSE <<>>,
              errors |-> <<>>,
              calls |-> <<ValidateCall(data_type, out.result.is_valid)>>
                        \o (IF out.result.is_valid THEN large.calls ELSE <<>>)]

RECURSIVE process_data_types(_, _, _, _, _, _, _)
\* The loop of process_collection over the data types.
process_data_types(results, coll, collection_path, output_dir, data_types, damaged, t) ==
    IF Len(data_types) = 0 THEN results
    ELSE LET type_results == process_data_type(coll, collection_path, output_dir,
                                               data_types[1], damaged, t)
         IN  process_data_types(
                 [results EXCEPT !.validations = @ \o type_results.validations,
                                 !.splits = @ \o type_results.splits,
                                 !.errors = @ \o type_results.errors,
                                 !.calls = @ \o type_results.calls],
                 coll, collection_path, output_dir, Tail(data_types), damaged, t)

\* NDAAutomation._validate_subject_data: the constructor raises ValueError;
\* without a subject file a dict is returned, no ValidationResult.
validate_subject_data(collection_id, coll, t) ==
    IF ~MatchCollectionId(collection_id) THEN [kind |-> "raise", fault |-> "ValueError"]
    ELSE IF ~coll.subject.exists
    THEN [kind |-> "dict", is_valid |-> FALSE,
          errors |-> <<"Research subject file not found">>]
    ELSE [kind |-> "ValidationResult",
          result |-> validate_file("ResearchSubjectValidator", NewResult, coll.subject,
                                   FALSE, t).result]

\* NDAAutomation.process_collection with the calls it makes, in their
\* order.  subject_results.is_valid of a dict raises AttributeError, which
\* the except clause of process_collection turns into an entry of
\* results['errors'].
process_collection_calls(collection_id, coll, collection_path, output_dir, damaged, t) ==
    LET results == [collection_id |-> collection_id, validations |-> <<>>,
                    splits |-> <<>>, errors |-> <<>>, calls |-> <<>>]
        subject_results == validate_subject_data(collection_id, coll, t)
    IN  IF subject_results.kind = "raise"
        THEN [results EXCEPT !.errors = <<subject_results.fault>>]
        ELSE IF subject_results.kind = "dict"
        THEN [results EXCEPT !.errors = <<"AttributeError">>]
        ELSE LET entry == ValidationEntry("subject", subject_results.result)
                 begun == [results EXCEPT
                             !.validations = <<entry>>,
                             !.calls = <<ValidateCall("subject",
                                                      subject_results.result.is_valid)>>]
             IN  IF ~subject_results.result.is_valid THEN begun
                 ELSE process_data_types(begun, coll, collection_path, output_dir,
                                         get_data_types(coll), damaged, t)

\* The dict NDAAutomation.process_collection returns.
process_collection(collection_id, coll, collection_path, output_dir, damaged, t) ==
    LET done == process_collection_calls(collection_id, coll, collection_path,
                                         output_dir, damaged, t)
    IN  [collection_id |-> done.collection_id, validations |-> done.validations,
         splits |-> done.splits, errors |-> done.errors]

\* What the disk does to the chunks of the splits of one call: nothing, or
\* damage to the chunks of some number.
Damages == {{}} \cup {{n} : n \in 0..MaxDamaged}

\* validate_all_collections: the value of results[collection_id] for what
\* the future of the collection came to.
collection_result(collection_id, out) ==
    IF out.raised THEN [collection_id |-> collection_id, error |-> out.fault]
    ELSE out.value

\* ------------------------------------------------- the batch calls' inputs

NoFile == File(FALSE, ".csv", "table", {}, <<>>)
TableOf(c, rows) == File(TRUE, ".csv", "table", Required(c), rows)

\* The files of a collection directory: none, a valid one, and ones with
\* errors or warnings.
SubjectFiles ==
    {NoFile,
     TableOf("ResearchSubjectValidator", <<BaseRow>>),
     TableOf("ResearchSubjectValidator",
             <<[BaseRow EXCEPT !["subjectkey"] = StrCell(Chars_INVALID123),
                               !["sex"] = Tok("X")]>>)}
BehavioralFiles ==
    {NoFile,
     TableOf("BehavioralValidator", <<BaseRow>>),
     TableOf("BehavioralValidator",
             <<[BaseRow EXCEPT !["interview_date"] = DateCell("iso", 0)]>>),
     TableOf("BehavioralValidator",
             <<[BaseRow EXCEPT !["interview_date"] = DateCell("mdy", FutureDay)]>>)}
EEGFiles ==
    {NoFile,
     TableOf("EEGValidator", <<BaseRow>>),
     TableOf("EEGValidator", <<[BaseRow EXCEPT !["experiment_id"] = StrCell(<<"E", "1">>)]>>)}
MRIFiles ==
    {NoFile,
     TableOf("MRIValidator", <<BaseRow>>),
     TableOf("MRIValidator", <<[BaseRow EXCEPT !["image_type"] = Tok("PET")]>>)}

\* The collection directories given to CollectionValidator.
CollectionDirs ==
    {[subject |-> s, behavioral |-> b, eeg |-> e, mri |-> m] :
        s \in SubjectFiles, b \in BehavioralFiles, e \in EEGFiles, m \in MRIFiles}

\* A data-type directory of a collection: absent, or with its metadata.csv
\* and the other files glob('*.*') yields.
NoDir == [exists |-> FALSE, metadata |-> NoFile, files |-> <<>>]
DataTypeDir(metadata, files) == [exists |-> TRUE, metadata |-> metadata, files |-> files]
LargeFile(stem, suffix) ==
    [path |-> [stem |-> stem, suffix |-> suffix], data |-> Content(1, SIZE_THRESHOLD + 1)]

EEGDirs ==
    {NoDir} \cup {DataTypeDir(m, <<LargeFile("rec", ".set")>>) : m \in EEGFiles \ {NoFile}}
OtherDirs ==
    {[mri |-> NoDir, behavioral |-> NoDir],
     [mri |-> NoDir,
      behavioral |-> DataTypeDir(TableOf("BehavioralValidator", <<BaseRow>>),
                                 <<LargeFile("scores", ".csv"), LargeFile("notes", ".txt")>>)],
     [mri |-> DataTypeDir(NoFile, <<>>), behavioral |-> NoDir]}

\* The collections under the base directory.
Layouts ==
    {[subject |-> s, eeg |-> e, mri |-> o.mri, behavioral |-> o.behavioral] :
        s \in SubjectFiles, e \in EEGDirs, o \in OtherDirs}

\* The entries of the base directory: collections, a directory whose name is
\* no collection id, a plain file, and a directory glob('C*') leaves out.
CollectionNames == {<<"C", "3", "9", "9", "6">>, <<"C", "4", "2", "2", "3">>}
BaseEntries ==
    {[name |-> n, dir |-> TRUE, coll |-> l] : n \in CollectionNames, l \in Layouts}
    \cup {[name |-> <<"C", "1", "2">>, dir |-> TRUE,
           coll |-> [subject |-> TableOf("ResearchSubjectValidator", <<BaseRow>>),
                     eeg |-> NoDir, mri |-> NoDir, behavioral |-> NoDir]],
          [name |-> <<"C", "_", "n", "o", "t", "e", "s">>, dir |-> FALSE, coll |-> <<>>],
          [name |-> <<"d", "a", "t", "a">>, dir |-> TRUE,
           coll |-> [subject |-> NoFile, eeg |-> NoDir, mri |-> NoDir,
                     behavioral |-> NoDir]]}

\* The base directories, of MaxEntries entries at most, in the order glob
\* yields them; no two entries of a directory have one name.
BasePaths ==
    UNION {{b \in [1..n -> BaseEntries] : \A i, j \in 1..n : i # j => b[i].name # b[j].name} :
             n \in 0..MaxEntries}

\* The collection of a key.
CollOf(key) == basePath[CHOOSE i \in DOMAIN basePath : basePath[i].name = key].coll

\* ------------------------------------------------- the batch calls' state

BatchInit ==
    /\ ValidatorIdle
    /\ HandlerIdle
    /\ futures = <<>>
    /\ completed = <<>>
    /\ gathered = <<>>
    /\ returned = NoOp
    /\ \/ /\ pc = "validate_collection"
          /\ dataDir \in CollectionDirs
          /\ collectionIdOk \in BOOLEAN
          /\ parallel \in BOOLEAN
          /\ basePath = <<>>
       \/ /\ pc = "validate_all_collections"
          /\ basePath \in BasePaths
          /\ dataDir = <<>>
          /\ collectionIdOk = TRUE
          /\ parallel = TRUE

\* validate_collection when it takes _validate_sequential, and its return.
ValidateSequential ==
    /\ pc = "validate_collection"
    /\ LET tasks == create_validation_tasks(dataDir)
       IN  /\ ~(parallel /\ Len(tasks) > 1)
           /\ \E results \in {validate_sequential(tasks, dataDir, collectionIdOk, now)} :
                 /\ gathered' = results
                 /\ returned' = [op |-> "validate_collection",
                                 summary |-> summarize_results(results)]
    /\ pc' = "done"
    /\ UNCHANGED <<dataDir, collectionIdOk, parallel, basePath, futures, completed>>
    /\ UNCHANGED <<vvars, hvars>>

\* validate_collection when it takes _validate_parallel: the tasks are
\* submitted to the pool.
SubmitValidations ==
    /\ pc = "validate_collection"
    /\ LET tasks == create_validation_tasks(dataDir)
       IN  /\ parallel /\ Len(tasks) > 1
           /\ futures' = tasks
    /\ pc' = "validate_parallel"
    /\ UNCHANGED <<dataDir, collectionIdOk, parallel, basePath, completed, gathered,
                   returned>>
    /\ UNCHANGED <<vvars, hvars>>

\* A worker thread runs _run_validation of a task to its end.
ValidationWorker ==
    /\ pc = "validate_parallel"
    /\ \E k \in DOMAIN futures :
          /\ futures[k] \notin CompletedKeys
          /\ \E out \in {run_validation(ValidatorClass(futures[k]), dataDir[futures[k]],
                                        collectionIdOk, now)} :
                completed' = Append(completed, <<futures[k], out>>)
    /\ UNCHANGED <<dataDir, collectionIdOk, parallel, basePath, futures, gathered,
                   returned, pc>>
    /\ UNCHANGED <<vvars, hvars>>

\* One round of the loop of _validate_parallel over the futures:
\* future.result() of a completed task; after the last round the pool is
\* left and validate_collection returns the summary.
GatherValidation ==
    /\ pc = "validate_parallel"
    /\ Len(gathered) < Len(futures)
    /\ LET task_type == NextFuture(futures, completed, Len(gathered))
       IN  /\ task_type \in CompletedKeys
           /\ gathered' = Append(gathered, <<task_type, task_result(OutcomeOf(task_type))>>)
    /\ IF Len(gathered') = Len(futures)
       THEN /\ returned' = [op |-> "validate_collection",
                            summary |-> summarize_results(gathered')]
            /\ pc' = "done"
       ELSE UNCHANGED <<returned, pc>>
    /\ UNCHANGED <<dataDir, collectionIdOk, parallel, basePath, futures, completed>>
    /\ UNCHANGED <<vvars, hvars>>

\* validate_all_collections submits process_collection of every collection
\* directory; with none it returns the empty dict.
SubmitCollections ==
    /\ pc = "validate_all_collections"
    /\ LET dirs == SelectSeq(basePath, IsCollectionDir)
       IN  /\ futures' = [k \in DOMAIN dirs |-> dirs[k].name]
           /\ IF Len(dirs) = 0
              THEN /\ returned' = [op |-> "validate_all_collections", results |-> <<>>]
                   /\ pc' = "done"
              ELSE /\ returned' = returned
                   /\ pc' = "gather_collections"
    /\ UNCHANGED <<dataDir, collectionIdOk, parallel, basePath, completed, gathered>>
    /\ UNCHANGED <<vvars, hvars>>

\* A worker thread runs process_collection of a collection to its end.
CollectionWorker ==
    /\ pc = "gather_collections"
    /\ \E k \in DOMAIN futures :
          /\ futures[k] \notin CompletedKeys
          /\ \E damaged \in Damages :
                \E done \in {process_collection_calls(futures[k], CollOf(futures[k]),
                                                      BasePath \o <<futures[k]>>,
                                                      OutputDir \o <<futures[k]>>,
                                                      damaged, now)} :
                   completed' = Append(completed,
                                       <<futures[k],
                                         [raised |-> FALSE,
                                          value |-> [collection_id |-> done.collection_id,
                                                     validations |-> done.validations,
                                                     splits |-> done.splits,
                                                     errors |-> done.errors],
                                          calls |-> done.calls]>>)
    /\ UNCHANGED <<dataDir, collectionIdOk, parallel, basePath, futures, gathered,
                   returned, pc>>
    /\ UNCHANGED <<vvars, hvars>>

\* One round of the loop of validate_all_collections over the futures; after
\* the last round it returns the results.
GatherCollection ==
    /\ pc = "gather_collections"
    /\ Len(gathered) < Len(futures)
    /\ LET collection_id == NextFuture(futures, completed, Len(gathered))
       IN  /\ collection_id \in CompletedKeys
           /\ gathered' = Append(gathered,
                                 <<collection_id,
                                   collection_result(collection_id, OutcomeOf(collection_id))>>)
    /\ IF Len(gathered') = Len(futures)
       THEN /\ returned' = [op |-> "validate_all_collections", results |-> gathered']
            /\ pc' = "done"
       ELSE UNCHANGED <<returned, pc>>
    /\ UNCHANGED <<dataDir, collectionIdOk, parallel, basePath, futures, completed>>
    /\ UNCHANGED <<vvars, hvars>>

BatchNext ==
    \/ ValidateSequential
    \/ SubmitValidations
    \/ ValidationWorker
    \/ GatherValidation
    \/ SubmitCollections
    \/ CollectionWorker
    \/ GatherCollection

BatchSpec == BatchInit /\ [][BatchNext]_vars

\* ------------------------------------------------------------ properties

\* The latest call was validate_file on the file under test (by the test's
\* validator object, or by one the orchestrator made for its task).
OnFile == ret.called /\ ret.main

\* The file under test was read as a table.
Parsed ==
    /\ file.exists
    /\ file.content = "table"
    /\ cls = "BehavioralValidator" => file.suffix \in VALID_EXTENSIONS

\* ... with every column its validator requires, and at least one row.
FullTable == Parsed /\ Required(cls) \subseteq file.cols /\ Len(file.rows) > 0

\* The validators whose validate_file checks subjectkey, interview_age,
\* interview_date and sex.
ChecksCommonFields == cls \in {"BehavioralValidator", "ResearchSubjectValidator"}

\* The latest call returned with no exception raised inside it.
NoFault == ~ret.raised /\ ret.fault = "none"

\* The number a message gives to row i of the table.
RowLabel(i) == IF cls = "ResearchSubjectValidator" THEN IdxStr(i) ELSE IdxStr(i - 1)

\* An error of one of `kinds` in the latest result names row i.
Flagged(kinds, i) ==
    \E n \in DOMAIN ret.val.errors :
        /\ ret.val.errors[n].k \in kinds
        /\ \E j \in DOMAIN ret.val.errors[n].d : ret.val.errors[n].d[j] = RowLabel(i)

HasError(kinds) == \E n \in DOMAIN ret.val.errors : ret.val.errors[n].k \in kinds
HasWarning(kinds) == \E n \in DOMAIN ret.val.warnings : ret.val.warnings[n].k \in kinds

\* C1: every ValidationResult returned by a call (validate_file of any of
\* the six validators, after any sequence of calls, or the result the
\* orchestrator keeps for a task, faulted or not) and every ValidationResult
\* object a validator holds has is_valid exactly when its errors are empty,
\* whatever its warnings.
C1_ValidIffNoErrors ==
    /\ ret.called /\ ~ret.raised => (ret.val.is_valid <=> ret.val.errors = <<>>)
    /\ \A r \in Refs : heap[r] # Free => (heap[r].is_valid <=> heap[r].errors = <<>>)

\* A validator called again, later, returns a result with errors and
\* warnings; the orchestrator's faulted task is the ret of RunTask.
C1_Witness ==
    /\ first.called /\ ret.called /\ ~ret.task /\ ret.at > first.at
    /\ ~ret.val.is_valid
    /\ ret.val.errors # <<>>
    /\ ret.val.warnings # <<>>

\* C2: whenever the parsed table lacks a required column, validate_file
\* returns is_valid = false, empty metadata, and the missing-column error as
\* its only error.
C2_MissingColumnShortCircuit ==
    OnFile /\ Parsed /\ Required(cls) \ file.cols # {}
    => /\ ~ret.raised
       /\ ~ret.val.is_valid
       /\ ret.val.metadata = EmptyMeta
       /\ Len(ret.val.errors) = 1
       /\ ret.val.errors[1].k \in {"Missing required columns", "Missing required fields"}

\* C3: a result with an error has empty metadata and is_valid = false.
C3_MetadataOnlyWithoutErrors ==
    OnFile /\ ~ret.raised /\ ret.val.errors # <<>>
    => ret.val.metadata = EmptyMeta /\ ~ret.val.is_valid

\* C4: validate_file never lets an exception through to its caller; when an
\* exception was raised inside it, the result it returns has is_valid = false
\* and an error that carries the exception's description.
C4_AlwaysReturns ==
    ret.called /\ ~ret.task
    => /\ ~ret.raised
       /\ ret.fault # "none"
          => /\ ~ret.val.is_valid
             /\ \E n \in DOMAIN ret.val.errors :
                  /\ ret.val.errors[n].k \in {"Unexpected error", "Validation error",
                                              "EEG validation error"}
                  /\ ret.val.errors[n].d = <<ret.fault>>

\* A comparison of the row checks raised TypeError on a table with every
\* required column, and the call returned.
C4_Witness ==
    /\ ret.called /\ ~ret.task /\ ~ret.raised
    /\ cls = "BehavioralValidator" /\ FullTable
    /\ ret.fault = "TypeError"

\* A subjectkey the specification accepts.
GuidOk(c) == ~IsNa(c) /\ (MatchStandard(c.s) \/ MatchPseudo(c.s))

\* C5: in the validators that check subject identifiers, when no exception
\* stops the checks, a row gets an invalid-GUID error exactly when its
\* subjectkey is null or matches neither the standard nor the pseudo pattern,
\* and such a row makes is_valid false.
C5_GuidPassesIffMatches ==
    OnFile /\ NoFault /\ ChecksCommonFields /\ FullTable
    => \A i \in DOMAIN file.rows :
          /\ Flagged({"Invalid GUID format"}, i) <=> ~GuidOk(file.rows[i].subjectkey)
          /\ ~GuidOk(file.rows[i].subjectkey) => ~ret.val.is_valid

\* An interview_age the specification rejects: not a number, or outside
\* [0, 1200].
AgeBad(c) == c.t = "txt" \/ Below(c, 0) \/ Above(c, MAX_AGE_MONTHS)
AgeErrors ==
    {"Invalid interview_age values", "Invalid interview age", "Invalid interview age format"}

\* C6: when no exception stops the checks, a row whose interview_age is an
\* integer or a text that is no number gets an age error exactly when the
\* value is not a number or lies outside [0, 1200].
C6_AgeErrorIffOutOfRange ==
    OnFile /\ NoFault /\ ChecksCommonFields /\ FullTable
    => \A i \in DOMAIN file.rows :
          file.rows[i].interview_age.t \in {"int", "txt"}
          => (Flagged(AgeErrors, i) <=> AgeBad(file.rows[i].interview_age))

\* C7: when no exception stops the checks and every interview_date is a
\* date, a row whose interview_date is later than the time of the validation
\* gives a future-date error and is_valid = false.
C7_FutureDateIsError ==
    /\ OnFile /\ NoFault /\ ChecksCommonFields /\ FullTable
    /\ \A i \in DOMAIN file.rows : file.rows[i].interview_date.t = "date"
    /\ \E i \in DOMAIN file.rows :
          /\ file.rows[i].interview_date.t = "date"
          /\ file.rows[i].interview_date.day > ret.at
    => HasError({"Future interview_date values"}) /\ ~ret.val.is_valid

\* C8: with every other field valid, interview dates that parse, are not in
\* the future and are not written MM/DD/YYYY give a warning about the date
\* format, no error, and is_valid = true.
C8_DateFormatIsWarning ==
    /\ OnFile /\ NoFault /\ ChecksCommonFields /\ FullTable
    /\ \A i \in DOMAIN file.rows :
          /\ file.rows[i] = [BaseRow EXCEPT !["interview_date"] = file.rows[i].interview_date]
          /\ file.rows[i].interview_date.t = "date"
          /\ file.rows[i].interview_date.fmt # "mdy"
          /\ file.rows[i].interview_date.day <= ret.at
    => /\ ret.val.is_valid
       /\ ret.val.errors = <<>>
       /\ HasWarning({"Some dates not in MM/DD/YYYY format"})

\* No date of the file is ahead of the clock at time t1 and not at time t2.
SameDatesAhead(t1, t2) ==
    \A i \in DOMAIN file.rows :
        \A c \in {"interview_date", "acquisition_date"} :
            file.rows[i][c].t = "date"
            => ((file.rows[i][c].day > t1) <=> (file.rows[i][c].day > t2))

\* The object the first call returned still has the value it was returned
\* with.
ReturnedResultKept == first.called => heap[first.ref] = first.val

\* C9 as the specification states it: a later validation of the file under
\* test returns the value the first one returned, and the object the first
\* one returned is not changed.
C9_Idempotent ==
    /\ first.called /\ OnFile /\ ~ret.raised => ret.val = first.val
    /\ ReturnedResultKept

\* C9: a later validation of the unchanged file, by the same validator
\* object or another, after any other calls, returns the value the first one
\* returned when no date of the file was ahead of the clock at one of the two
\* validations and not at the other; and the object a call returned is never
\* changed by a later call.
C9_IdempotentAtFixedDates ==
    /\ first.called /\ OnFile /\ ~ret.raised /\ SameDatesAhead(first.at, ret.at)
       => ret.val = first.val
    /\ ReturnedResultKept

\* The validator object that returned the first result has validated the
\* file again, later, with errors and warnings to report, and holds another
\* object than the one it returned first.
C9_Witness ==
    /\ first.called /\ OnFile /\ ~ret.task /\ ret.at > first.at
    /\ UsesSelfResult(cls)
    /\ selfResult # first.ref
    /\ heap[selfResult] = ret.val
    /\ ret.val.errors # <<>> /\ ret.val.warnings # <<>>

\* C10: when split_large_file has split the file and merge_chunks is called
\* next on the directory it wrote into, a directory whose files all have a
\* chunk number in their names, merge_chunks succeeds and the output file
\* has the bytes of the file, and its size.
C10_SplitMergeRoundTrip ==
    /\ prev.op = "split" /\ prev.success /\ result.op = "merge"
    /\ \A e \in chunkDir : ~KeyRaises(e.name)
    => /\ ~result.raised
       /\ result.success
       /\ merged = source


\* The least number of blocks of size b that hold a bytes.
CeilDiv(a, b) == (a + b - 1) \div b

\* The file of the chunk directory d with the name given.
Stored(d, name) == {e \in d : e.name = name}

C12_NumericOrder ==
    result.op = "merge" /\ ~result.raised /\ result.success
    => /\ {result.chunks[k] : k \in DOMAIN result.chunks} = {e.name : e \in chunkDir}
       /\ Len(merged.data) = CHUNK_SIZE * Cardinality(chunkDir)
       /\ \A i, j \in DOMAIN merged.data : i < j => merged.data[i] <= merged.data[j]
       /\ \A i, j \in DOMAIN result.chunks :
             /\ result.chunks[i].tail = <<"2">>
             /\ result.chunks[j].tail = <<"1", "0">>
             => i < j

\* Eleven chunks, numbered 0 to 10, were merged.
C12_Witness ==
    /\ result.op = "merge" /\ result.success
    /\ Len(result.chunks) >= 11
    /\ \E i, j \in DOMAIN result.chunks :
          result.chunks[i].tail = <<"2">> /\ result.chunks[j].tail = <<"1", "0">>

\* C13: a merge of a directory that holds no chunk returns success = false
\* with an error, and leaves the output path as it was: not created, and
\* not truncated.
C13_EmptyMergeFails ==
    [][result'.op = "merge" /\ chunkDir = {}
       => /\ ~result'.raised
          /\ ~result'.success
          /\ result'.errors # <<>>
          /\ result'.chunks = <<>>
          /\ merged' = merged
      ]_vars

\* A merge of an empty directory failed while the output path held the file
\* of an earlier merge.
C13_Witness ==
    /\ result.op = "merge" /\ ~result.raised /\ ~result.success
    /\ chunkDir = {}
    /\ merged.exists /\ Len(merged.data) > 0

\* C14: split_large_file writes chunks exactly when needs_splitting holds of
\* the file; when it does not hold the call returns success = false with no
\* chunks and no checksums, writes no file, and does not create the output
\* directory.
C14_SplitsIffNeeded ==
    [][result'.op = "split"
       => IF needs_splitting(source)
          THEN /\ result'.chunks # <<>>
               /\ dirExists'
               /\ \A k \in DOMAIN result'.chunks :
                     Stored(chunkDir', result'.chunks[k]) # {}
          ELSE /\ ~result'.raised
               /\ ~result'.success
               /\ result'.chunks = <<>>
               /\ result'.checksums = {}
               /\ chunkDir' = chunkDir
               /\ dirExists' = dirExists
      ]_vars

\* A file of exactly the limit's size was given to split_large_file while no
\* output directory existed, and none exists after it.
C14_Witness ==
    /\ result.op = "split" /\ ~result.success
    /\ source.exists /\ Len(source.data) = NDA_SIZE_LIMIT
    /\ ~needs_splitting(source)
    /\ ~dirExists


\* validate_all_collections is at work or has returned.
InAutomation == pc \in {"gather_collections", "done"} /\ dataDir = <<>>
\* validate_collection has returned; validate_all_collections has returned.
CollectionValidated == pc = "done" /\ returned.op = "validate_collection"
AllCollectionsValidated == pc = "done" /\ returned.op = "validate_all_collections"

\* The subject validation of a collection is not valid: there is no subject
\* file, or the validator finds errors in it.
SubjectNotValid(coll, t) ==
    \/ ~coll.subject.exists
    \/ ~validate_file("ResearchSubjectValidator", NewResult, coll.subject, FALSE,
                      t).result.is_valid

\* C15: process_collection of a collection whose subject validation is not
\* valid returns validations that hold the subject entry and nothing else,
\* and no splits, whatever data-type directories the collection has.
C15_SubjectFailureHalts ==
    InAutomation
    => \A i \in DOMAIN completed :
          LET collection_id == completed[i][1]
              results == completed[i][2].value
          IN  /\ MatchCollectionId(collection_id)
              /\ SubjectNotValid(CollOf(collection_id), now)
              => /\ Len(results.validations) = 1
                 /\ results.validations[1].type = "subject"
                 /\ ~results.validations[1].is_valid
                 /\ results.splits = <<>>

\* The result the validator of a task type returns for the file of the
\* directory.
OwnResult(task_type) ==
    validate_file(ValidatorClass(task_type), NewResult, dataDir[task_type],
                  task_type = "eeg", now).result

\* C16: when validate_collection has returned, in either mode, there is a
\* result for every task; the result of a task that raised is a failed
\* ValidationResult with one error, and the result of every other task is
\* what its validator returns for its file.
C16_FaultedTaskIsolated ==
    CollectionValidated
    => LET tasks == create_validation_tasks(dataDir)
           results == returned.summary.results
       IN  /\ Len(results) = Len(tasks)
           /\ \A k \in DOMAIN tasks :
                 /\ results[k][1] = tasks[k]
                 /\ IF collectionIdOk
                    THEN results[k][2] = OwnResult(tasks[k])
                    ELSE /\ ~results[k][2].is_valid
                         /\ Len(results[k][2].errors) = 1
                         /\ results[k][2].errors[1].k = "Validation failed"
                         /\ results[k][2].warnings = <<>>
                         /\ results[k][2].metadata = EmptyMeta

\* In parallel mode every task of three or more raised, and each has its
\* failed result.
C16_Witness ==
    /\ CollectionValidated
    /\ parallel /\ ~collectionIdOk
    /\ Len(futures) >= 3
    /\ Len(returned.summary.results) = Len(futures)
    /\ \A k \in DOMAIN returned.summary.results :
          ~returned.summary.results[k][2].is_valid

\* The keys of the completed tasks in the order of their completion.
CompletionOrder == [i \in DOMAIN completed |-> completed[i][1]]

C18_OneEntryPerCollection ==
    AllCollectionsValidated
    => LET R == returned.results
       IN  /\ \A i \in DOMAIN basePath :
                 (basePath[i].name[1] = "C" /\ basePath[i].dir)
                 <=> \E k \in DOMAIN R : R[k][1] = basePath[i].name
           /\ \A k, l \in DOMAIN R : R[k][1] = R[l][1] => k = l
           /\ \A k \in DOMAIN R :
                 /\ \E i \in DOMAIN basePath : basePath[i].name = R[k][1]
                 /\ R[k][2].collection_id = R[k][1]
                 /\ \E damaged \in Damages :
                       R[k][2] = process_collection(R[k][1], CollOf(R[k][1]),
                                                    BasePath \o <<R[k][1]>>,
                                                    OutputDir \o <<R[k][1]>>,
                                                    damaged, now)
                 /\ ~MatchCollectionId(R[k][1]) => R[k][2].errors # <<>>

\* Two collections were processed: one met a fault and has its error, the
\* other has its validations and splits and no error.
C18_Witness ==
    /\ AllCollectionsValidated
    /\ Len(returned.results) = 2
    /\ \E k, l \in DOMAIN returned.results :
          /\ returned.results[k][2].errors # <<>>
          /\ returned.results[k][2].validations = <<>>
          /\ returned.results[l][2].errors = <<>>
          /\ Len(returned.results[l][2].validations) >= 2
          /\ returned.results[l][2].splits # <<>>

\* No result of the directories that are validated has more errors, or more
\* warnings, than this.
MaxErrors == 4

\* C19: in the summary validate_collection returns, all_valid holds exactly
\* when every result is valid, error_count and warning_count are the numbers
\* of errors and of warnings of all results, and metadata has one entry per
\* result, with the metadata of that result.
C19_SummaryTotals ==
    CollectionValidated
    => LET summary == returned.summary
           R == summary.results
       IN  /\ summary.all_valid <=> \A k \in DOMAIN R : R[k][2].is_valid
           /\ summary.error_count =
                Cardinality({p \in (DOMAIN R) \X (1..MaxErrors) :
                               p[2] <= Len(R[p[1]][2].errors)})
           /\ summary.warning_count =
                Cardinality({p \in (DOMAIN R) \X (1..MaxErrors) :
                               p[2] <= Len(R[p[1]][2].warnings)})
           /\ \A k \in DOMAIN R : Len(R[k][2].errors) <= MaxErrors
           /\ \A k \in DOMAIN R : Len(R[k][2].warnings) <= MaxErrors
           /\ DOMAIN summary.metadata = DOMAIN R
           /\ \A k \in DOMAIN R : summary.metadata[k] = <<R[k][1], R[k][2].metadata>>
           /\ \A k, l \in DOMAIN R : R[k][1] = R[l][1] => k = l

\* A summary of three results or more, one of them with two errors and one
\* with a warning.
C19_Witness ==
    /\ CollectionValidated
    /\ Len(returned.summary.results) >= 3
    /\ \E k \in DOMAIN returned.summary.results :
          Len(returned.summary.results[k][2].errors) >= 2
    /\ \E k \in DOMAIN returned.summary.results :
          returned.summary.results[k][2].warnings # <<>>
    /\ returned.summary.error_count >= 3
    /\ ~returned.summary.all_valid

\* C20: when the collection directory has no subject file, the other types
\* whose files are present have their results, and the summary reports the
\* missing subject file: under a 'subject' key, or by an error or an
\* all_valid = false that the results of the other types do not account for.
C20_AbsentSubjectReported ==
    CollectionValidated /\ ~dataDir.subject.exists
    => LET summary == returned.summary
           R == summary.results
       IN  /\ \A task_type \in {"behavioral", "eeg", "mri"} :
                 dataDir[task_type].exists => \E k \in DOMAIN R : R[k][1] = task_type
           /\ \/ \E k \in DOMAIN R : R[k][1] = "subject"
              \/ \E k \in DOMAIN summary.metadata : summary.metadata[k][1] = "subject"
              \/ summary.error_count > Total([k \in DOMAIN R |-> Len(R[k][2].errors)])
              \/ ~summary.all_valid /\ \A k \in DOMAIN R : R[k][2].is_valid


\* The errors that say the file is absent, of a wrong type, or empty.
StructuralErrors ==
    {"File not found", "Metadata file not found", "Invalid file type", "File is empty"}

\* C21: for a file that does not exist, that is empty, or whose extension is
\* neither .csv nor .xlsx, validate_file returns is_valid = false with one
\* error, which says so, and no error of a row check; for an empty file the
\* error says that the file is empty.
C21_FailsFast ==
    /\ OnFile
    /\ \/ ~file.exists
       \/ file.content = "empty"
       \/ file.suffix \notin {".csv", ".xlsx"}
    => /\ ~ret.raised
       /\ ~ret.val.is_valid
       /\ Len(ret.val.errors) = 1
       /\ ret.val.errors[1].k \in StructuralErrors
       /\ (file.exists /\ file.suffix \in {".csv", ".xlsx"})
          => ret.val.errors[1].k = "File is empty"

\* The calls process_collection of a completed collection made, and those
\* of them that are calls of split_large_file.
CallsOf(i) == completed[i][2].calls
SplitCalls(i) == {j \in DOMAIN CallsOf(i) : CallsOf(i)[j].call = "split_large_file"}

\* C22: process_collection gives every split_large_file a directory under
\* the output directory it was given for the collection, every chunk file is
\* written in that directory, none of them under the base path that holds
\* the collections, and the base path is as it was when the batch began.
C22_InputsUntouched ==
    /\ [](InAutomation
          => \A i \in DOMAIN completed :
                \A j \in SplitCalls(i) :
                   LET c == CallsOf(i)[j]
                       collection_id == completed[i][1]
                   IN  /\ Under(OutputDir \o <<collection_id>>, c.dir)
                       /\ ~Under(BasePath, c.dir)
                       /\ \A w \in c.written : Under(c.dir, w) /\ ~Under(BasePath, w))
    /\ [][basePath' = basePath]_vars

\* A collection was processed whose large files were split into chunks.
C22_Witness ==
    /\ AllCollectionsValidated
    /\ \E i \in DOMAIN completed :
          /\ Cardinality(SplitCalls(i)) >= 2
          /\ \A j \in SplitCalls(i) : Cardinality(CallsOf(i)[j].written) >= 2

\* C27: process_collection of a collection without a subject file returns
\* validations that hold one entry, of type subject, with is_valid = false
\* and the error 'Research subject file not found', and no splits.
C27_AbsentSubjectEntry ==
    InAutomation
    => \A i \in DOMAIN completed :
          LET collection_id == completed[i][1]
              results == completed[i][2].value
          IN  /\ MatchCollectionId(collection_id)
              /\ ~CollOf(collection_id).subject.exists
              => /\ Len(results.validations) = 1
                 /\ results.validations[1].type = "subject"
                 /\ ~results.validations[1].is_valid
                 /\ results.validations[1].errors = <<"Research subject file not found">>
                 /\ results.splits = <<>>

\* C28: the entries of results['splits'] are those of the split_large_file
\* calls that returned success = true, in their order; a call that returned
\* success = false has an entry in results['errors'] and none in splits.
C28_SplitsAreSuccesses ==
    InAutomation
    => \A i \in DOMAIN completed :
          LET results == completed[i][2].value
              calls == SelectSeq(CallsOf(i), LAMBDA c : c.call = "split_large_file")
              succeeded == SelectSeq(calls, LAMBDA c : c.ok)
          IN  /\ Len(results.splits) = Len(succeeded)
              /\ \A k \in DOMAIN results.splits :
                    /\ k \in DOMAIN succeeded
                    /\ results.splits[k].type = succeeded[k].type
                    /\ results.splits[k].filename = succeeded[k].filename
              /\ (\E k \in DOMAIN calls : ~calls[k].ok) => results.errors # <<>>

DataTypeValidators ==
    {"ResearchSubjectValidator", "DemographicsValidator", "BehavioralValidator",
     "EEGValidator", "MRIValidator"}

\* C23: validate_file of each of the five data-type validators, on a table
\* with every required column and when no exception stops the checks,
\* reports every row whose subjectkey is no GUID, every row whose
\* interview_age is no number or out of range, a sex that is neither M nor
\* F and, when every interview_date is a date, one in the future, and then
\* is_valid is false.
C23_CommonRulesOnEveryRow ==
    OnFile /\ NoFault /\ FullTable /\ cls \in DataTypeValidators
    => \A i \in DOMAIN file.rows :
          LET row == file.rows[i]
          IN  /\ ~GuidOk(row.subjectkey)
                 => Flagged({"Invalid GUID format"}, i) /\ ~ret.val.is_valid
              /\ row.interview_age.t \in {"int", "txt"} /\ AgeBad(row.interview_age)
                 => Flagged(AgeErrors, i) /\ ~ret.val.is_valid
              /\ row.sex = Tok("X")
                 => HasError({"Invalid sex values", "Invalid sex value"})
              /\ (\A j \in DOMAIN file.rows : file.rows[j].interview_date.t = "date")
                 /\ row.interview_date.day > ret.at
                 => HasError({"Future interview_date values", "Future interview date"})

\* C24: when split_large_file returns success = true, checksums has one
\* entry for each path of chunks and for no other path, the chunks stand in
\* the increasing order of their numbers, from 0, and the checksum of each
\* chunk is the hash of the bytes its file holds.
C24_ChecksumsMatchChunks ==
    result.op = "split" /\ result.success
    => /\ {c[1] : c \in result.checksums} = {result.chunks[k] : k \in DOMAIN result.chunks}
       /\ Cardinality(result.checksums) = Len(result.chunks)
       /\ \A k \in DOMAIN result.chunks : SortKey(result.chunks[k]) = k - 1
       /\ \A c \in result.checksums :
             /\ Stored(chunkDir, c[1]) # {}
             /\ \A e \in Stored(chunkDir, c[1]) : c[2] = Sha256(e.data)

\* A split into several chunks succeeded.
C24_Witness ==
    /\ result.op = "split" /\ result.success
    /\ Len(result.chunks) >= 2
    /\ Cardinality(result.checksums) = Len(result.chunks)

\* A chunk of the latest split holds other bytes than those its checksum
\* was computed from.
ChunkMismatch ==
    \E c \in result.checksums :
        \E e \in Stored(chunkDir, c[1]) : Sha256(e.data) # c[2]

\* C25: when a chunk of a split reads back with another hash than the one
\* recorded for it, split_large_file returns success = false with a
\* chunk-validation error, and the file of every chunk it wrote is in the
\* directory.
C25_MismatchFailsAndKeepsChunks ==
    /\ result.op = "split"
       => \A k \in DOMAIN result.chunks : Stored(chunkDir, result.chunks[k]) # {}
    /\ result.op = "split" /\ ChunkMismatch
       => /\ ~result.raised
          /\ ~result.success
          /\ result.errors = <<"Chunk validation failed">>
          /\ Len(result.chunks) = CeilDiv(Len(source.data), CHUNK_SIZE)

\* A split into several chunks failed on the damaged first chunk, and the
\* chunks are in the directory.
C25_Witness ==
    /\ result.op = "split" /\ ~result.success
    /\ result.errors = <<"Chunk validation failed">>
    /\ Len(result.chunks) >= 2
    /\ ChunkMismatch
    /\ \A k \in DOMAIN result.chunks : Stored(chunkDir, result.chunks[k]) # {}

\* C26: merge_chunks returns a FileHandlingResult and lets no exception
\* through; of a directory that holds a file with 'chunk' in its name and no
\* number after it, the result has success = false and an error.
C26_MergeNeverRaises ==
    result.op = "merge"
    => /\ ~result.raised
       /\ (\E e \in chunkDir : KeyRaises(e.name))
          => ~result.success /\ result.errors # <<>>

\* C29: after a split that succeeded, whatever splits of other contents and
\* sizes of the file went into the directory before, the chunk files of the
\* file's stem in the directory are the chunks the split returned.
C29_ChunksAreLatestSplit ==
    result.op = "split" /\ result.success
    => {e.name : e \in {x \in chunkDir : x.name.stem = Stem /\ ~KeyRaises(x.name)}}
       = {result.chunks[k] : k \in DOMAIN result.chunks}
====
